---------------------------- MODULE Spec2Model ----------------------------
(***************************************************************************)
(* A model of the sync servers of palm-sync.                               *)
(*                                                                         *)
(*   Spec     UsbSyncServer: start(), stop(), the run() discovery loop and *)
(*            one session per discovered device (openDevice, onConnection, *)
(*            closeDevice, waitForDeviceToDisconnect).                     *)
(*   NetSpec  NetworkSyncServer: start(), stop() and one onConnection per  *)
(*            accepted socket.                                             *)
(*   CodecSpec  the DLP wire codec (DlpRequest, DlpResponse, DlpArg):      *)
(*            serialize and parseFrom applied to inputs drawn in Init.     *)
(*                                                                         *)
(* Every action is one continuation of an async function: the code that    *)
(* runs between two awaits.  Results of awaited calls on the device, the   *)
(* bus and the user's sync function are inputs, drawn with \E.             *)
(***************************************************************************)
EXTENDS Integers, Sequences, FiniteSets, TLC

(***************************************************************************)
(* Bounds of the model.                                                    *)
(***************************************************************************)
\* run() invocations that may exist at once, counting start() calls that
\* are suspended in usb.requestDevice.
MaxLoops == 2
\* (idVendor, idProduct) pairs that may show up on the bus.
MaxDevices == 2
\* Sockets the network server may have accepted at once.
MaxConns == 2
\* NetworkSyncServer.stop() calls that may be suspended at once.
MaxNetStops == 2
\* DlpRequest.execute calls made on one transport.
MaxCalls == 2
\* Endpoints of the alternate setting of interface 0.
MaxEndpoints == 3
\* Chunks a UsbConnectionStream is given to write, and chunks it pushes.
MaxChunks == 2
\* Databases on the device (the length of conduitData.dbList).
MaxDbs == 2

Loops == 1..MaxLoops
DeviceIds == 1..MaxDevices
Conns == 1..MaxConns
Calls == 1..MaxCalls

\* Keys of the built-in device table.
USB_DEVICE_CONFIGS_BY_ID == {1, 9}

\* What usb.getDeviceList() may return: the attached devices, in any order.
BusLists ==
    {list \in UNION {[1..n -> DeviceIds] : n \in 0..MaxDevices} :
        \A i, j \in 1..Len(list) : i # j => list[i] # list[j]}

SeqToSet(s) == {s[i] : i \in 1..Len(s)}

Contains(s, e) == e \in SeqToSet(s)

\* Positions of e in s.
Pos(s, e) == {i \in 1..Len(s) : s[i] = e}

VARIABLES
    \* ---- UsbSyncServer ----
    runPromise,    \* 0 (null), or the run() invocation whose promise it holds
    shouldStop,    \* the flag stop() sets
    starting,      \* start() calls suspended in usb.requestDevice
    stopWait,      \* per run(): stop() calls suspended in `await this.runPromise`
    pc,            \* per run(): the await it is suspended at
    rawDevice,     \* per run(): id of the device found by waitForDevice, or 0
    device,        \* per run(): openDevice returned a non-null device
    claimed,       \* per run(): interface 0 of that device is claimed
    stream,        \* per run(): "null", "open" or "ended"
                   \* (device and stream are local to the try block of run():
                   \* they are gone once the loop waits for the disconnect)
    trace,         \* per run(): what the current session did so far
    pendingRemoval,\* per run(): a session ended and no bus poll of
                   \* waitForDeviceToDisconnect has seen the device gone yet
    everStarted,   \* some start() has assigned runPromise
    stoppedSince,  \* a stop() completed and no start() assigned runPromise since
    \* ---- NetworkSyncServer ----
    server,        \* "null" or the state of the net.Server: "listening",
                   \* "closing" (close() called, sockets still open) or
                   \* "closed" ('close' emitted)
    netStop,       \* stop() calls suspended in pEvent(server, 'close')
    cpc,           \* per socket: the await onConnection is suspended at
    ctrace,        \* per socket: what onConnection did so far
    \* ---- DLP codec ----
    cin,           \* the operation to apply and its arguments
    cout,          \* what the operation returned or threw
    \* ---- DlpRequest.execute on one transport ----
    request,       \* per call: the DlpRequest executed (command ID, arguments,
                   \* number of arguments its responseType declares)
    epc,           \* per call: where execute is: "none", "pEvent" (suspended
                   \* in pEvent(transport, 'data')), "parse" (resumed with a
                   \* message), "returned" or "thrown"
    written,       \* what transport.write was given, oldest first
    answered,      \* how many of these the device has answered
    rawResponse,   \* per call: the 'data' message execute was resumed with
    response,      \* per call: what response.parseFrom made of it
    \* ---- openDevice, step 3: the connection configuration ----
    usbDevice,     \* the WebUSBDevice: configuration, interfaces, endpoints
    initType,      \* deviceConfig.initType
    ipc,           \* where openDevice is: "none", "init", the control
                   \* request awaited, "returned"; "applied" after a call of
                   \* getConnectionConfigFromUsbDeviceInfo on its own
    controlRequests, \* control transfers issued: request and endpoint index
    lastResponse,  \* the response of the last control request answered
    initConfig,    \* GENERIC: `config` while GET_NUM_BYTES_AVAILABLE is sent
    initResult,    \* what USB_INIT_FNS[initType](device) came to
    inferred,      \* getConnectionConfigFromUsbDeviceInfo: called, result
    connectionConfig, \* openDevice's connectionConfig
    openResult,    \* "none", or the stream openDevice returned: "null" or
                   \* "stream" (made with connectionConfig)
    \* ---- UsbConnectionStream ----
    shouldClose,   \* the flag _final sets
    rpc,           \* _read: "idle" or "transferIn" (awaiting the transfer)
    wpc,           \* _write: "idle", "transferOut", or "hung" (transferOut
                   \* threw: the callback is never called)
    ending,        \* end() was called
    destroyed,     \* "no", or the error the stream was destroyed with
    streamEvents,  \* 'error' and 'finish' events emitted, in order
    pushed,        \* chunks given to this.push
    writtenOut,    \* chunks whose _write called back without an error
    lastTransferIn,\* what the last transferIn came to
    \* ---- the conduits: one call of execute ----
    conduit,       \* the conduit: "SyncDatabases", "DownloadNewResources"
                   \* or "RestoreResources"
    conduitData,   \* the ConduitData execute is called with
    desktop,       \* the files in storage for the user
    kdbs,          \* what getAllDatabasesFromStorage returned
    kcount,        \* downloadCount / installCount
    kpc,           \* "idle", the call execute awaits, "resolved" or
                   \* "rejected"
    kindex,        \* index (from 1) of the loop over dbList
    kcalls,        \* DLP and storage calls made so far, in order
    \* ---- waitForDevice, one call ----
    scanStop,      \* shouldStop as the call finds it
    scanPc,        \* "idle", "wfd_list" (awaiting the bus list), "wfd_sleep"
                   \* (awaiting the timer), "open" (a device was returned)
                   \* or "done" (null was returned)
    scanList,      \* the bus list scanned last
    scanFound,     \* id of the device returned, or 0
    scanPolls,     \* bus lists scanned so far
    \* ---- NodeDatabaseStorageImplementation ----
    readWriteToBasedir,  \* the constructor's flag
    stgFiles,      \* the files under baseDir
    stgLast,       \* the last call and what it came to
    \* ---- Database ----
    pdb,           \* the Database object: header, appInfo, sortInfo, records
    pdbBuffers,    \* what the calls of serialize() returned, in call order
    pdbParsed      \* the objects parseFrom() filled

loopLocals == <<rawDevice, device, claimed, stream, trace, pendingRemoval>>
usbVars == <<runPromise, shouldStop, starting, stopWait, pc, loopLocals,
             everStarted, stoppedSince>>
netVars == <<server, netStop, cpc, ctrace>>
codecVars == <<cin, cout>>
dlpVars == <<request, epc, written, answered, rawResponse, response>>
cfgVars == <<usbDevice, initType, ipc, controlRequests, lastResponse,
             initConfig, initResult, inferred, connectionConfig, openResult>>
streamVars == <<shouldClose, rpc, wpc, ending, destroyed, streamEvents,
                pushed, writtenOut, lastTransferIn>>
conduitVars == <<conduit, conduitData, desktop, kdbs, kcount, kpc, kindex,
                 kcalls>>
scanVars == <<scanStop, scanPc, scanList, scanFound, scanPolls>>
stgVars == <<readWriteToBasedir, stgFiles, stgLast>>
pdbVars == <<pdb, pdbBuffers, pdbParsed>>
nonUsbVars == <<netVars, codecVars, dlpVars, cfgVars, streamVars,
                conduitVars, scanVars, stgVars, pdbVars>>
nonNetVars == <<usbVars, codecVars, dlpVars, cfgVars, streamVars,
                conduitVars, scanVars, stgVars, pdbVars>>
nonCodecVars == <<usbVars, netVars, dlpVars, cfgVars, streamVars,
                  conduitVars, scanVars, stgVars, pdbVars>>
nonDlpVars == <<usbVars, netVars, codecVars, cfgVars, streamVars,
                conduitVars, scanVars, stgVars, pdbVars>>
nonCfgVars == <<usbVars, netVars, codecVars, dlpVars, streamVars,
                conduitVars, scanVars, stgVars, pdbVars>>
nonStreamVars == <<usbVars, netVars, codecVars, dlpVars, cfgVars,
                   conduitVars, scanVars, stgVars, pdbVars>>
nonConduitVars == <<usbVars, netVars, codecVars, dlpVars, cfgVars,
                    streamVars, scanVars, stgVars, pdbVars>>
nonScanVars == <<usbVars, netVars, codecVars, dlpVars, cfgVars,
                 streamVars, conduitVars, stgVars, pdbVars>>
nonStgVars == <<usbVars, netVars, codecVars, dlpVars, cfgVars,
                streamVars, conduitVars, scanVars, pdbVars>>
nonPdbVars == <<usbVars, netVars, codecVars, dlpVars, cfgVars,
                streamVars, conduitVars, scanVars, stgVars>>
vars == <<usbVars, netVars, codecVars, dlpVars, cfgVars, streamVars,
          conduitVars, scanVars, stgVars, pdbVars>>

NetInit ==
    /\ server = "null"
    /\ netStop = 0
    /\ cpc = [c \in Conns |-> "none"]
    /\ ctrace = [c \in Conns |-> <<>>]

UsbInit ==
    /\ runPromise = 0
    /\ shouldStop = FALSE
    /\ starting = 0
    /\ stopWait = [l \in Loops |-> 0]
    /\ pc = [l \in Loops |-> "none"]
    /\ rawDevice = [l \in Loops |-> 0]
    /\ device = [l \in Loops |-> FALSE]
    /\ claimed = [l \in Loops |-> FALSE]
    /\ stream = [l \in Loops |-> "null"]
    /\ trace = [l \in Loops |-> <<>>]
    /\ pendingRemoval = [l \in Loops |-> FALSE]
    /\ everStarted = FALSE
    /\ stoppedSince = FALSE

\* No codec operation is under way.
CodecIdle ==
    /\ cin = [op |-> "none"]
    /\ cout = [op |-> "none"]

\* No execute call made: nothing written to the transport.
DlpIdleCalls ==
    /\ epc = [k \in Calls |-> "none"]
    /\ written = <<>>
    /\ answered = 0
    /\ rawResponse = [k \in Calls |-> [seq |-> 0, buffer |-> <<>>]]
    /\ response = [k \in Calls |-> [ok |-> FALSE, error |-> "none"]]

DlpIdle ==
    /\ request = [k \in Calls |->
                    [commandId |-> 0, args |-> <<>>, responseArgs |-> 0]]
    /\ DlpIdleCalls

\* A UsbConnectionConfig, and null in its place.
NoConfig == [found |-> FALSE]
Config(i, o) == [found |-> TRUE, inEndpoint |-> i, outEndpoint |-> o]

NoResponse == [request |-> "none"]

\* openDevice has not reached its step 3: nothing asked of the device.
CfgIdleCalls ==
    /\ controlRequests = <<>>
    /\ lastResponse = NoResponse
    /\ initConfig = NoConfig
    /\ initResult = [kind |-> "none", config |-> NoConfig]
    /\ inferred = [called |-> FALSE, config |-> NoConfig]
    /\ connectionConfig = NoConfig
    /\ openResult = "none"

CfgIdle ==
    /\ usbDevice = [configuration |-> FALSE, interfaces |-> 0,
                    endpoints |-> <<>>]
    /\ initType = "NONE"
    /\ ipc = "none"
    /\ CfgIdleCalls

\* A UsbConnectionStream as its constructor leaves it.
StreamInit ==
    /\ shouldClose = FALSE
    /\ rpc = "idle"
    /\ wpc = "idle"
    /\ ending = FALSE
    /\ destroyed = "no"
    /\ streamEvents = <<>>
    /\ pushed = 0
    /\ writtenOut = 0
    /\ lastTransferIn = "none"

\* No conduit has been called.
ConduitIdle ==
    /\ conduit = "SyncDatabases"
    /\ conduitData = [dbListIsNull |-> TRUE, dbList |-> <<>>,
                      syncType |-> "NOT_SET"]
    /\ desktop = {}
    /\ kdbs = <<>>
    /\ kcount = 0
    /\ kpc = "idle"
    /\ kindex = 0
    /\ kcalls = <<>>

\* waitForDevice has not been called on its own.
ScanIdle ==
    /\ scanStop = FALSE
    /\ scanPc = "idle"
    /\ scanList = <<>>
    /\ scanFound = 0
    /\ scanPolls = 0

\* No storage object is in use.
StgIdle ==
    /\ readWriteToBasedir = FALSE
    /\ stgFiles = {}
    /\ stgLast = [op |-> "none"]

\* No Database object is in use.
PdbIdle ==
    /\ pdb = [appInfoId |-> 0, sortInfoId |-> 0, localChunkIds |-> <<>>,
              appInfo |-> <<>>, sortInfo |-> <<>>, records |-> <<>>]
    /\ pdbBuffers = <<>>
    /\ pdbParsed = <<>>

\* The other parts of the program at rest.
OthersIdle ==
    /\ CodecIdle /\ DlpIdle /\ CfgIdle /\ StreamInit
    /\ ConduitIdle /\ ScanIdle /\ StgIdle /\ PdbIdle

Init == UsbInit /\ NetInit /\ OthersIdle


(***************************************************************************)
(* UsbSyncServer                                                           *)
(***************************************************************************)
ActivePcs == {"wfd_list", "wfd_sleep", "open", "handshake", "sysinfo",
              "userinfo", "sync", "end", "streamEnd", "release", "close",
              "catch", "wdd_list", "wdd_sleep", "wdd_ret"}
WaitDisconnectPcs == {"wdd_list", "wdd_sleep", "wdd_ret"}

\* A run() invocation is active from its call until its promise settles.
Active(l) == pc[l] \in ActivePcs
ActiveLoops == {l \in Loops : Active(l)}

\* A settled run() promise that neither runPromise nor a suspended stop()
\* holds is unreachable: its slot is free again.
Collect(pcs, rp, sw) ==
    [l \in Loops |-> IF pcs[l] = "done" /\ rp # l /\ sw[l] = 0
                     THEN "none" ELSE pcs[l]]

FreeLoops == {l \in Loops : pc[l] = "none"}

\* The local state of one run() invocation.
SetLoop(l, p, r, d, c, s, t, g) ==
    /\ pc' = Collect([pc EXCEPT ![l] = p], runPromise, stopWait)
    /\ rawDevice' = [rawDevice EXCEPT ![l] = r]
    /\ device' = [device EXCEPT ![l] = d]
    /\ claimed' = [claimed EXCEPT ![l] = c]
    /\ stream' = [stream EXCEPT ![l] = s]
    /\ trace' = [trace EXCEPT ![l] = t]
    /\ pendingRemoval' = [pendingRemoval EXCEPT ![l] = g]

\* A step of run() l that only moves it to p and records event e.
Move(l, p, e) ==
    SetLoop(l, p, rawDevice[l], device[l], claimed[l], stream[l],
            Append(trace[l], e), pendingRemoval[l])

serverVars == <<runPromise, shouldStop, starting, stopWait, everStarted,
                stoppedSince>>

\* waitForDevice's loop test followed by its first await.
waitForDeviceEntry(flag) == IF flag THEN "done" ELSE "wfd_list"

\* run(): `while (!this.shouldStop)`, then waitForDevice() up to its first
\* await; waitForDevice returns null at once when the flag is set.
runEntry(flag) == waitForDeviceEntry(flag)

\* A start() without the guard.
startGuardAbsent(rp) == TRUE

\* start(): the guard.  A call on a started server throws and changes
\* nothing.
startGuard(rp) == rp = 0

\* start() up to `await usb.requestDevice(...)`, which only the browser
\* shim provides; without it start() goes on to `this.runPromise =
\* this.run()` in the same turn.
StartRun(l) ==
    /\ runPromise' = l
    /\ everStarted' = TRUE
    /\ stoppedSince' = FALSE
    /\ pc' = Collect([pc EXCEPT ![l] = runEntry(shouldStop)], l, stopWait)
    /\ rawDevice' = [rawDevice EXCEPT ![l] = 0]
    /\ device' = [device EXCEPT ![l] = FALSE]
    /\ claimed' = [claimed EXCEPT ![l] = FALSE]
    /\ stream' = [stream EXCEPT ![l] = "null"]
    /\ trace' = [trace EXCEPT ![l] = <<>>]
    /\ pendingRemoval' = [pendingRemoval EXCEPT ![l] = FALSE]

MinOf(S) == CHOOSE x \in S : \A y \in S : x <= y

start ==
    /\ startGuard(runPromise)
    /\ starting + 1 <= Cardinality(FreeLoops)
    /\ \E hasRequestDevice \in BOOLEAN :
         IF hasRequestDevice
         THEN /\ starting' = starting + 1
              /\ UNCHANGED <<runPromise, shouldStop, stopWait, pc, loopLocals,
                             everStarted, stoppedSince>>
         ELSE /\ StartRun(MinOf(FreeLoops))
              /\ UNCHANGED <<shouldStop, starting, stopWait>>
    /\ UNCHANGED nonUsbVars

\* start() resumed after usb.requestDevice: `this.runPromise = this.run()`.
startResume ==
    /\ starting > 0
    /\ starting' = starting - 1
    /\ StartRun(MinOf(FreeLoops))
    /\ UNCHANGED <<shouldStop, stopWait>>
    /\ UNCHANGED nonUsbVars

\* A stop() whose guard tests runPromise only.
stopCallIgnoringFlag(rp, flag) ==
    IF rp = 0
    THEN [runPromise |-> rp, shouldStop |-> flag, awaits |-> FALSE]
    ELSE [runPromise |-> rp, shouldStop |-> TRUE, awaits |-> TRUE]

\* stop() up to `await this.runPromise`: what it leaves in runPromise and
\* shouldStop, and whether it goes on to the await.
stopCall(rp, flag) ==
    IF rp = 0 \/ flag
    THEN [runPromise |-> rp, shouldStop |-> flag, awaits |-> FALSE]
    ELSE [runPromise |-> rp, shouldStop |-> TRUE, awaits |-> TRUE]

StopsSuspended == {l \in Loops : stopWait[l] > 0}

stop ==
    LET r == stopCall(runPromise, shouldStop) IN
    /\ runPromise' = r.runPromise
    /\ shouldStop' = r.shouldStop
    /\ IF r.awaits
       THEN /\ stopWait[runPromise] < MaxLoops
            /\ stopWait' = [stopWait EXCEPT ![runPromise] = @ + 1]
       ELSE UNCHANGED stopWait
    /\ UNCHANGED <<starting, pc, loopLocals, everStarted, stoppedSince>>
    /\ UNCHANGED nonUsbVars

\* What stop() assigns once the awaited run() promise has settled.
stopFinish == [runPromise |-> 0, shouldStop |-> FALSE]

stopResume(l) ==
    /\ stopWait[l] > 0
    /\ pc[l] = "done"
    /\ runPromise' = stopFinish.runPromise
    /\ shouldStop' = stopFinish.shouldStop
    /\ stopWait' = [stopWait EXCEPT ![l] = @ - 1]
    /\ stoppedSince' = TRUE
    /\ pc' = Collect(pc, runPromise', stopWait')
    /\ UNCHANGED <<starting, loopLocals, everStarted>>
    /\ UNCHANGED nonUsbVars


\* A scan that returns the last device of the list whose id is a key of the
\* device table.
waitForDeviceScanLast(list) ==
    LET hits == {i \in 1..Len(list) : list[i] \in USB_DEVICE_CONFIGS_BY_ID}
    IN  IF hits = {} THEN 0
        ELSE list[CHOOSE i \in hits : \A j \in hits : j <= i]

\* waitForDevice: the scan of the list usb.getDeviceList() returned.  The
\* first device whose id is a key of the device table, or 0.
waitForDeviceScan(list) ==
    LET hits == {i \in 1..Len(list) : list[i] \in USB_DEVICE_CONFIGS_BY_ID}
    IN  IF hits = {} THEN 0 ELSE list[MinOf(hits)]

\* waitForDevice resumed with the bus list.  A supported device is returned
\* to run(), which calls openDevice(): it is now suspended in
\* WebUSBDevice.createInstance / device.open.  The flag is not read.
waitForDevicePoll(l) ==
    /\ pc[l] = "wfd_list"
    /\ \E list \in BusLists :
         LET found == waitForDeviceScan(list) IN
         IF found # 0
         THEN SetLoop(l, "open", found, FALSE, FALSE, "null", <<>>,
                      pendingRemoval[l])
         ELSE SetLoop(l, "wfd_sleep", 0, FALSE, FALSE, "null", <<>>,
                      pendingRemoval[l])
    /\ UNCHANGED serverVars
    /\ UNCHANGED nonUsbVars

\* waitForDevice resumed by the polling timer: its loop test.  With the flag
\* set it returns null and run() breaks out of its loop and returns.
waitForDeviceWake(l) ==
    /\ pc[l] = "wfd_sleep"
    /\ SetLoop(l, waitForDeviceEntry(shouldStop), 0, FALSE, FALSE, "null",
               <<>>, IF shouldStop THEN FALSE ELSE pendingRemoval[l])
    /\ UNCHANGED serverVars
    /\ UNCHANGED nonUsbVars

\* waitForDeviceToDisconnect up to its first await: its loop test.  With the
\* flag set it returns at once and run() is resumed later ("wdd_ret").
waitForDeviceToDisconnectEntry(flag) == IF flag THEN "wdd_ret" ELSE "wdd_list"

\* A run() without the try block: a rejection ends the loop.
runOnRejectUncaught == "done"

\* run(): a rejection of openDevice, onConnection or closeDevice resumes
\* run() in the catch clause of its try block.
runOnReject == "catch"

\* A closeDevice that releases the interface whether claimed or not.
closeDeviceReleaseUnconditional(isClaimed) == "release"

\* closeDevice after the stream has ended (or without a stream): release
\* the interface if it is claimed, then close.
closeDeviceRelease(isClaimed) == IF isClaimed THEN "release" ELSE "close"

\* closeDevice up to its first await.
closeDeviceEntry(str, isClaimed) ==
    IF str # "null" THEN "streamEnd" ELSE closeDeviceRelease(isClaimed)

\* openDevice, given what the device does: open succeeds, a configuration is
\* selected, it has an interface, claimInterface succeeds, a connection
\* configuration is found (by the init function or from the descriptors).
openDevice(in) ==
    IF ~in.open
    THEN [device |-> FALSE, stream |-> "null", claimed |-> FALSE,
          event |-> "open:throw"]
    ELSE IF ~in.config
    THEN [device |-> TRUE, stream |-> "null", claimed |-> FALSE,
          event |-> "open:noConfiguration"]
    ELSE IF ~in.iface
    THEN [device |-> TRUE, stream |-> "null", claimed |-> FALSE,
          event |-> "open:noInterface"]
    ELSE IF ~in.claim
    THEN [device |-> TRUE, stream |-> "null", claimed |-> FALSE,
          event |-> "open:claimThrow"]
    ELSE IF ~in.conn
    THEN [device |-> TRUE, stream |-> "null", claimed |-> TRUE,
          event |-> "open:noConnectionConfig"]
    ELSE [device |-> TRUE, stream |-> "open", claimed |-> TRUE,
          event |-> "open:ok"]

OpenInputs == [open : BOOLEAN, config : BOOLEAN, iface : BOOLEAN,
               claim : BOOLEAN, conn : BOOLEAN]

OpenFailures == {"open:throw", "open:noConfiguration", "open:noInterface",
                 "open:claimThrow", "open:noConnectionConfig"}

\* A run() that calls onConnection whenever openDevice returned a device.
runAfterOpenTestingDevice(r, flag) ==
    IF r.device THEN "handshake"
    ELSE waitForDeviceToDisconnectEntry(flag)

\* run() resumed with openDevice's result: onConnection if there is a
\* stream, else closeDevice if there is a device, else on to
\* waitForDeviceToDisconnect.
runAfterOpen(r, flag) ==
    IF r.stream # "null" THEN "handshake"
    ELSE IF r.device THEN closeDeviceEntry(r.stream, r.claimed)
    ELSE waitForDeviceToDisconnectEntry(flag)

\* What a step that takes run() to position p has done: onConnection emits
\* 'connect' before the handshake; the session is over once the loop is in
\* waitForDeviceToDisconnect.
EnterEvents(p) == IF p = "handshake" THEN <<"connect">> ELSE <<>>

\* A step of run() l to position p that records the events es.  Once the
\* loop waits for the disconnect the session is over.
Go(l, p, es) ==
    IF p \in WaitDisconnectPcs
    THEN SetLoop(l, p, rawDevice[l], FALSE, FALSE, "null", <<>>, TRUE)
    ELSE SetLoop(l, p, rawDevice[l], device[l], claimed[l], stream[l],
                 trace[l] \o es \o EnterEvents(p), pendingRemoval[l])

runOpenDevice(l) ==
    /\ pc[l] = "open"
    /\ \E in \in OpenInputs :
         LET r == openDevice(in)
             p == runAfterOpen(r, shouldStop)
         IN  IF p \in WaitDisconnectPcs
             THEN Go(l, p, <<r.event>>)
             ELSE SetLoop(l, p, rawDevice[l], r.device, r.claimed, r.stream,
                          <<r.event>> \o EnterEvents(p), pendingRemoval[l])
    /\ UNCHANGED serverVars
    /\ UNCHANGED nonUsbVars


\* onConnection resumed after connection.doHandshake(): on to
\* connection.start(), which sends ReadSysInfo.  A rejection leaves
\* onConnection and is caught in run().
onConnectionAfterHandshake(ok) == IF ok THEN "sysinfo" ELSE runOnReject

doHandshake(l) ==
    /\ pc[l] = "handshake"
    /\ \E ok \in BOOLEAN :
         Go(l, onConnectionAfterHandshake(ok),
            IF ok THEN <<"handshake">> ELSE <<"handshake:throw">>)
    /\ UNCHANGED serverVars
    /\ UNCHANGED nonUsbVars

\* A start() that goes on to ReadUserInfo whatever ReadSysInfo came to.
startAfterSysInfoUnchecked(ok, onReject) == "userinfo"

\* SyncConnection.start resumed after ReadSysInfo: on to ReadUserInfo.  A
\* rejection leaves start() and the onConnection that awaits it; onReject is
\* where that takes the caller of onConnection.
startAfterSysInfo(ok, onReject) == IF ok THEN "userinfo" ELSE onReject

readSysInfo(l) ==
    /\ pc[l] = "sysinfo"
    /\ \E ok \in BOOLEAN :
         Go(l, startAfterSysInfo(ok, runOnReject),
            IF ok THEN <<"sysinfo">> ELSE <<"sysinfo:throw">>)
    /\ UNCHANGED serverVars
    /\ UNCHANGED nonUsbVars

\* SyncConnection.start resumed after ReadUserInfo: it returns, and
\* onConnection calls the sync function.
startAfterUserInfo(ok, onReject) == IF ok THEN "sync" ELSE onReject

readUserInfo(l) ==
    /\ pc[l] = "userinfo"
    /\ \E ok \in BOOLEAN :
         Go(l, startAfterUserInfo(ok, runOnReject),
            IF ok THEN <<"userinfo">> ELSE <<"userinfo:throw">>)
    /\ UNCHANGED serverVars
    /\ UNCHANGED nonUsbVars

\* An onConnection without the try block around the sync function.
onConnectionAfterSyncUncaught(ok) == IF ok THEN "end" ELSE runOnReject

\* onConnection resumed after the sync function: a rejection is caught and
\* logged inside onConnection, and connection.end() sends EndOfSync.
onConnectionAfterSync(ok) == "end"

syncFn(l) ==
    /\ pc[l] = "sync"
    /\ \E ok \in BOOLEAN :
         Go(l, onConnectionAfterSync(ok),
            IF ok THEN <<"sync">> ELSE <<"sync:throw">>)
    /\ UNCHANGED serverVars
    /\ UNCHANGED nonUsbVars

\* run() resumed after onConnection returned: closeDevice if there is a
\* device.
runAfterConnection(dev, str, isClaimed, flag) ==
    IF dev THEN closeDeviceEntry(str, isClaimed)
    ELSE waitForDeviceToDisconnectEntry(flag)

\* onConnection resumed after connection.end(): 'disconnect' is emitted and
\* onConnection returns.  A rejection of end() leaves onConnection.
endOfSync(l) ==
    /\ pc[l] = "end"
    /\ \E ok \in BOOLEAN :
         IF ok
         THEN Go(l, runAfterConnection(device[l], stream[l], claimed[l],
                                       shouldStop),
                 <<"end", "disconnect">>)
         ELSE Go(l, runOnReject, <<"end:throw">>)
    /\ UNCHANGED serverVars
    /\ UNCHANGED nonUsbVars

\* run() resumed in its catch clause: it logs the error and goes on to
\* waitForDeviceToDisconnect.
runCatch(l) ==
    /\ pc[l] = "catch"
    /\ Go(l, waitForDeviceToDisconnectEntry(shouldStop), <<>>)
    /\ UNCHANGED serverVars
    /\ UNCHANGED nonUsbVars

\* closeDevice resumed after stream.end().
closeDeviceStreamEnd(l) ==
    /\ pc[l] = "streamEnd"
    /\ SetLoop(l, closeDeviceRelease(claimed[l]), rawDevice[l], device[l],
               claimed[l], "ended", Append(trace[l], "stream.end"),
               pendingRemoval[l])
    /\ UNCHANGED serverVars
    /\ UNCHANGED nonUsbVars

\* closeDevice resumed after device.releaseInterface(): a rejection is
\* logged, and device.close() is next either way.
closeDeviceReleased(l) ==
    /\ pc[l] = "release"
    /\ \E ok \in BOOLEAN :
         SetLoop(l, "close", rawDevice[l], device[l],
                 IF ok THEN FALSE ELSE claimed[l], stream[l],
                 Append(trace[l], IF ok THEN "release" ELSE "release:throw"),
                 pendingRemoval[l])
    /\ UNCHANGED serverVars
    /\ UNCHANGED nonUsbVars

\* closeDevice resumed after device.close(): a rejection is swallowed.
\* closeDevice returns and run() goes on to waitForDeviceToDisconnect.
closeDeviceClosed(l) ==
    /\ pc[l] = "close"
    /\ \E ok \in BOOLEAN :
         Go(l, waitForDeviceToDisconnectEntry(shouldStop),
            IF ok THEN <<"close">> ELSE <<"close:throw">>)
    /\ UNCHANGED serverVars
    /\ UNCHANGED nonUsbVars

\* waitForDeviceToDisconnect: is a device with the (idVendor, idProduct) of
\* the session's device in the list?
stillAttached(list, id) == \E i \in 1..Len(list) : list[i] = id

\* waitForDeviceToDisconnect resumed with the bus list.
waitForDeviceToDisconnectPoll(l) ==
    /\ pc[l] = "wdd_list"
    /\ \E list \in BusLists :
         IF stillAttached(list, rawDevice[l])
         THEN SetLoop(l, "wdd_sleep", rawDevice[l], device[l], claimed[l],
                      stream[l], trace[l], pendingRemoval[l])
         ELSE SetLoop(l, "wdd_ret", rawDevice[l], device[l], claimed[l],
                      stream[l], trace[l], FALSE)
    /\ UNCHANGED serverVars
    /\ UNCHANGED nonUsbVars

\* waitForDeviceToDisconnect resumed by the polling timer: its loop test.
waitForDeviceToDisconnectWake(l) ==
    /\ pc[l] = "wdd_sleep"
    /\ Go(l, waitForDeviceToDisconnectEntry(shouldStop), <<>>)
    /\ UNCHANGED serverVars
    /\ UNCHANGED nonUsbVars

\* run() resumed after waitForDeviceToDisconnect: the next iteration of its
\* loop, or its end.
runLoop(l) ==
    /\ pc[l] = "wdd_ret"
    /\ SetLoop(l, runEntry(shouldStop), 0, FALSE, FALSE, "null", <<>>,
               IF shouldStop THEN FALSE ELSE pendingRemoval[l])
    /\ UNCHANGED serverVars
    /\ UNCHANGED nonUsbVars

UsbNext ==
    \/ start
    \/ startResume
    \/ stop
    \/ \E l \in Loops : stopResume(l)
    \/ \E l \in Loops : waitForDevicePoll(l)
    \/ \E l \in Loops : waitForDeviceWake(l)
    \/ \E l \in Loops : runOpenDevice(l)
    \/ \E l \in Loops : doHandshake(l)
    \/ \E l \in Loops : readSysInfo(l)
    \/ \E l \in Loops : readUserInfo(l)
    \/ \E l \in Loops : syncFn(l)
    \/ \E l \in Loops : endOfSync(l)
    \/ \E l \in Loops : runCatch(l)
    \/ \E l \in Loops : closeDeviceStreamEnd(l)
    \/ \E l \in Loops : closeDeviceReleased(l)
    \/ \E l \in Loops : closeDeviceClosed(l)
    \/ \E l \in Loops : waitForDeviceToDisconnectPoll(l)
    \/ \E l \in Loops : waitForDeviceToDisconnectWake(l)
    \/ \E l \in Loops : runLoop(l)

Spec == Init /\ [][UsbNext]_vars


(***************************************************************************)
(* NetworkSyncServer                                                       *)
(***************************************************************************)
\* start(): the guard; a call on a server that has a net.Server throws.
netStartGuard(srv) == srv = "null"

\* start(): createServer and listen.
netStart ==
    /\ netStartGuard(server)
    /\ server' = "listening"
    /\ UNCHANGED <<netStop, cpc, ctrace>>
    /\ UNCHANGED nonNetVars

\* stop() up to `await pEvent(this.server, 'close')`: the state it leaves
\* the net.Server in, and whether it goes on to the await.  server.close()
\* stops a listening server from accepting; the field is not reset.
netStopCall(srv) ==
    IF srv = "null" THEN [server |-> srv, awaits |-> FALSE]
    ELSE IF srv = "listening" THEN [server |-> "closing", awaits |-> TRUE]
    ELSE [server |-> srv, awaits |-> TRUE]

netStopStart ==
    LET r == netStopCall(server) IN
    /\ r.awaits
    /\ netStop < MaxNetStops
    /\ server' = r.server
    /\ netStop' = netStop + 1
    /\ UNCHANGED <<cpc, ctrace>>
    /\ UNCHANGED nonNetVars

\* The net.Server emits 'close' once it has stopped listening and every
\* socket has ended: the suspended stop() calls resume and return.
netServerClose ==
    /\ server = "closing"
    /\ \A c \in Conns : cpc[c] = "none"
    /\ server' = "closed"
    /\ netStop' = 0
    /\ UNCHANGED <<cpc, ctrace>>
    /\ UNCHANGED nonNetVars

\* net.Server.close() on a server that is not running emits 'close' again
\* (Node's net module): a stop() suspended on a closed server resumes.
netServerCloseAgain ==
    /\ server = "closed"
    /\ netStop > 0
    /\ netStop' = 0
    /\ UNCHANGED <<server, cpc, ctrace>>
    /\ UNCHANGED nonNetVars

NetGo(c, p, es) ==
    /\ cpc' = [cpc EXCEPT ![c] = p]
    /\ ctrace' = [ctrace EXCEPT ![c] = @ \o es]
    /\ UNCHANGED <<server, netStop>>
    /\ UNCHANGED nonNetVars

\* The net.Server calls onConnection for an accepted socket: 'connect' is
\* emitted and the handshake begins.
netOnConnection(c) ==
    /\ server = "listening"
    /\ cpc[c] = "none"
    /\ NetGo(c, "handshake", <<"connect">>)

\* Nothing awaits the promise of onConnection: a rejection ends it.
netOnReject == "rejected"

netAfterHandshake(ok) == IF ok THEN "sysinfo" ELSE netOnReject

netDoHandshake(c) ==
    /\ cpc[c] = "handshake"
    /\ \E ok \in BOOLEAN :
         NetGo(c, netAfterHandshake(ok),
               IF ok THEN <<"handshake">> ELSE <<"handshake:throw">>)

netReadSysInfo(c) ==
    /\ cpc[c] = "sysinfo"
    /\ \E ok \in BOOLEAN :
         NetGo(c, startAfterSysInfo(ok, netOnReject),
               IF ok THEN <<"sysinfo">> ELSE <<"sysinfo:throw">>)

netReadUserInfo(c) ==
    /\ cpc[c] = "userinfo"
    /\ \E ok \in BOOLEAN :
         NetGo(c, startAfterUserInfo(ok, netOnReject),
               IF ok THEN <<"userinfo">> ELSE <<"userinfo:throw">>)

\* onConnection resumed after `await this.syncFn(connection)`: there is no
\* try block around it.
netAfterSync(ok) == IF ok THEN "end" ELSE netOnReject

netSyncFn(c) ==
    /\ cpc[c] = "sync"
    /\ \E ok \in BOOLEAN :
         NetGo(c, netAfterSync(ok),
               IF ok THEN <<"sync">> ELSE <<"sync:throw">>)

\* onConnection resumed after connection.end(): 'disconnect' is emitted.
netAfterEnd(ok) == IF ok THEN "returned" ELSE netOnReject

netEndOfSync(c) ==
    /\ cpc[c] = "end"
    /\ \E ok \in BOOLEAN :
         NetGo(c, netAfterEnd(ok),
               IF ok THEN <<"end", "disconnect">> ELSE <<"end:throw">>)

\* The socket of a finished onConnection ends (the device hangs up).
netSocketClose(c) ==
    /\ cpc[c] \in {"returned", "rejected"}
    /\ cpc' = [cpc EXCEPT ![c] = "none"]
    /\ ctrace' = [ctrace EXCEPT ![c] = <<>>]
    /\ UNCHANGED <<server, netStop>>
    /\ UNCHANGED nonNetVars

NetNext ==
    \/ netStart
    \/ netStopStart
    \/ netServerClose
    \/ netServerCloseAgain
    \/ \E c \in Conns : netOnConnection(c)
    \/ \E c \in Conns : netDoHandshake(c)
    \/ \E c \in Conns : netReadSysInfo(c)
    \/ \E c \in Conns : netReadUserInfo(c)
    \/ \E c \in Conns : netSyncFn(c)
    \/ \E c \in Conns : netEndOfSync(c)
    \/ \E c \in Conns : netSocketClose(c)

NetSpec == Init /\ [][NetNext]_vars


(***************************************************************************)
(* The DLP wire codec (dlp-protocol.ts)                                    *)
(*                                                                         *)
(* A buffer is a sequence of bytes.  A length is a pair <<hi, lo>> of      *)
(* 16-bit words standing for hi * 65536 + lo, so that lengths up to and    *)
(* beyond 2^32 - 1 can be written; hi = 65536 stands for a length of 2^32  *)
(* or more.                                                                *)
(***************************************************************************)
Bytes == 0..255

Bit(x, i) == (x \div (2 ^ i)) % 2

RECURSIVE BitAndUpTo(_, _, _)
BitAndUpTo(x, y, i) ==
    IF i < 0 THEN 0
    ELSE (2 ^ i) * Bit(x, i) * Bit(y, i) + BitAndUpTo(x, y, i - 1)

\* x & y and x | y on bytes.
BitAnd(x, y) == BitAndUpTo(x, y, 7)
BitOr(x, y) == x + y - BitAnd(x, y)
BitNot(x) == 255 - x

Throw(e) == [ok |-> FALSE, error |-> e]

ToLength(n) == <<n \div 65536, n % 65536>>
LenLE(a, b) == a[1] < b[1] \/ (a[1] = b[1] /\ a[2] <= b[2])
LenLT(a, b) == a[1] < b[1] \/ (a[1] = b[1] /\ a[2] < b[2])

DLP_RESPONSE_TYPE_BITMASK == 128
DLP_RESPONSE_COMMAND_ID_BITMASK == BitAnd(255, BitNot(DLP_RESPONSE_TYPE_BITMASK))
DLP_ARG_TYPE_BITMASK == 192
DLP_ARG_ID_BITMASK == BitAnd(255, BitNot(DLP_ARG_TYPE_BITMASK))

\* A table whose short and long bitmasks are exchanged.
DlpArgTypesExchanged ==
    [tiny  |-> [maxLength |-> <<0, 255>>, bitmask |-> 0, headerLength |-> 2],
     short |-> [maxLength |-> <<0, 65535>>, bitmask |-> 64,
                headerLength |-> 4],
     long  |-> [maxLength |-> <<65535, 65535>>, bitmask |-> 128,
                headerLength |-> 6]]

DlpArgTypes ==
    [tiny  |-> [maxLength |-> <<0, 255>>, bitmask |-> 0, headerLength |-> 2],
     short |-> [maxLength |-> <<0, 65535>>, bitmask |-> 128,
                headerLength |-> 4],
     long  |-> [maxLength |-> <<65535, 65535>>, bitmask |-> 64,
                headerLength |-> 6]]

\* Object.entries(DlpArgTypes), in the order the keys were defined.
DlpArgTypesObjectEntries ==
    << <<"tiny", DlpArgTypes.tiny>>, <<"short", DlpArgTypes.short>>,
       <<"long", DlpArgTypes.long>> >>

\* _.sortBy(entries, maxLength): a stable sort, by insertion.
RECURSIVE InsertByMaxLength(_, _)
InsertByMaxLength(e, sorted) ==
    IF sorted = <<>> THEN <<e>>
    ELSE IF LenLT(e[2].maxLength, sorted[1][2].maxLength)
         THEN <<e>> \o sorted
         ELSE <<sorted[1]>> \o InsertByMaxLength(e, Tail(sorted))

RECURSIVE SortByMaxLength(_)
SortByMaxLength(entries) ==
    IF entries = <<>> THEN <<>>
    ELSE InsertByMaxLength(entries[Len(entries)],
                           SortByMaxLength(SubSeq(entries, 1,
                                                  Len(entries) - 1)))

DlpArgTypesEntries == SortByMaxLength(DlpArgTypesObjectEntries)

\* The least index of a set of indices, 0 if there is none.
FirstOf(hits) ==
    IF hits = {} THEN 0 ELSE CHOOSE i \in hits : \A j \in hits : i <= j

\* Array.prototype.find over DlpArgTypesEntries: the index of the first
\* entry that satisfies the test, 0 for undefined.
FindEntry(Test(_)) ==
    FirstOf({i \in 1..Len(DlpArgTypesEntries) : Test(DlpArgTypesEntries[i][2])})

\* The type of the entry found; "throw" for `Unsupported data length`.
EntryType(i) == IF i = 0 THEN "throw" ELSE DlpArgTypesEntries[i][1]

\* An argType that takes the first class whose maximum exceeds the length.
argTypeStrict(dataLength) ==
    LET Holds(spec) == LenLT(dataLength, spec.maxLength)
    IN EntryType(FindEntry(Holds))

\* DlpArg.argType: the first class, by increasing maxLength, that holds the
\* length.
argType(dataLength) ==
    LET Holds(spec) == LenLE(dataLength, spec.maxLength)
    IN EntryType(FindEntry(Holds))

\* writeUInt16BE / writeUInt32BE.
writeUInt16BE(n) == <<n \div 256, n % 256>>
writeUInt32BE(dataLength) ==
    writeUInt16BE(dataLength[1]) \o writeUInt16BE(dataLength[2])

\* The header of each class after its first byte has been computed.
headerBytes(type, first, dataLength) ==
    CASE type = "tiny" -> <<first, dataLength[2]>>
      [] type = "short" -> <<first, 0>> \o writeUInt16BE(dataLength[2])
      [] type = "long" -> <<first, 0>> \o writeUInt32BE(dataLength)

\* DlpArgTypes[type].serializeToHeader(argId, dataLength).
serializeToHeader(type, argId, dataLength) ==
    headerBytes(type, BitOr(argId, DlpArgTypes[type].bitmask), dataLength)

\* this.argTypeSpec.serializeToHeader(this.argId, serializedData.length) of
\* DlpArg.serialize; argTypeSpec throws if no class holds the length.
argHeader(type, argId, dataLength) ==
    IF type = "throw" THEN Throw("unsupportedDataLength")
    ELSE [ok |-> TRUE, argType |-> type,
          buffer |-> serializeToHeader(type, argId, dataLength)]

\* The header of DlpArg.serialize followed by the data.
argBytes(header, data) ==
    IF ~header.ok THEN header
    ELSE [ok |-> TRUE, argType |-> header.argType,
          buffer |-> header.buffer \o data]

\* DlpArg.serialize for an argument whose value serializes to `data`.
DlpArg_serialize(argId, data) ==
    argBytes(argHeader(argType(ToLength(Len(data))), argId,
                       ToLength(Len(data))), data)

\* The smaller of what is left of a buffer and the length asked for.
clampLength(rest, dataLength) ==
    IF LenLE(ToLength(rest), dataLength)
    THEN rest
    ELSE dataLength[1] * 65536 + dataLength[2]

\* reader.readBuffer(length) at offset off: as much as the buffer holds.
readBuffer(buffer, off, dataLength) ==
    SubSeq(buffer, off + 1, off + clampLength(Len(buffer) - off, dataLength))

readUInt16BE(buffer, off) == buffer[off + 1] * 256 + buffer[off + 2]

\* DlpArgTypes[type].parseFromHeader(header); reading past the end of the
\* header throws.
parseFromHeader(type, header) ==
    IF Len(header) < DlpArgTypes[type].headerLength THEN Throw("range")
    ELSE [ok |-> TRUE,
          argId |-> BitAnd(header[1], DLP_ARG_ID_BITMASK),
          dataLength |->
              CASE type = "tiny" -> <<0, header[2]>>
                [] type = "short" -> <<0, readUInt16BE(header, 2)>>
                [] type = "long" -> <<readUInt16BE(header, 2),
                                      readUInt16BE(header, 4)>>]

\* DlpArg.parseFrom, its end: the value keeps the data and the offset of
\* the reader is returned.
argParsed(type, header, off, data) ==
    [ok |-> TRUE, argType |-> type, argId |-> header.argId,
     dataLength |-> header.dataLength, value |-> data,
     readOffset |-> off + Len(data)]

\* DlpArg.parseFrom after parseFromHeader: read the data.
argReadData(type, header, off, buffer) ==
    IF ~header.ok THEN header
    ELSE argParsed(type, header, off,
                   readBuffer(buffer, off, header.dataLength))

\* DlpArg.parseFrom after the rewind: read and parse the full header.
argReadHeader(type, headerBuffer, buffer) ==
    argReadData(type, parseFromHeader(type, headerBuffer),
                Len(headerBuffer), buffer)

\* DlpArg.parseFrom after the search for the class of the first byte.
argWithTypeSpec(argTypeSpec, buffer) ==
    IF argTypeSpec = 0 THEN Throw("argumentIdType")
    ELSE argReadHeader(
             DlpArgTypesEntries[argTypeSpec][1],
             readBuffer(buffer, 0,
                        <<0, DlpArgTypesEntries[argTypeSpec][2].headerLength>>),
             buffer)

\* DlpArgTypesEntries.find(([_, {bitmask}]) => argTypeBits === bitmask).
findArgTypeSpec(argIdWithArgTypeBitmask) ==
    LET HasBits(spec) ==
            BitAnd(argIdWithArgTypeBitmask, DLP_ARG_TYPE_BITMASK) = spec.bitmask
    IN FindEntry(HasBits)

\* DlpArg.parseFrom(buffer) for an argument whose value keeps the bytes.
DlpArg_parseFrom(buffer) ==
    IF Len(buffer) < 1 THEN Throw("range")
    ELSE argWithTypeSpec(findArgTypeSpec(buffer[1]), buffer)

\* Two serialized pieces written one after the other.
joinSerialized(a, r) ==
    IF ~a.ok THEN a
    ELSE IF ~r.ok THEN r
    ELSE [ok |-> TRUE, buffer |-> a.buffer \o r.buffer]

\* getDlpArgs(this).map((arg) => arg.serialize()), written one after the
\* other; args is the sequence of [argId, value] of the object.
RECURSIVE serializeArgs(_)
serializeArgs(args) ==
    IF args = <<>> THEN [ok |-> TRUE, buffer |-> <<>>]
    ELSE joinSerialized(DlpArg_serialize(args[1].argId, args[1].value),
                        serializeArgs(Tail(args)))

\* A writer of the error code in little-endian order.
writeErrnoLE(errno) == <<errno % 256, errno \div 256>>

\* writer.writeUInt16BE(this.errno) of DlpResponse.serialize.
writeErrno(errno) == writeUInt16BE(errno)

DlpResponse_serialize(commandId, errno, args) ==
    joinSerialized([ok |-> TRUE,
                    buffer |-> <<BitOr(commandId, DLP_RESPONSE_TYPE_BITMASK),
                                 Len(args)>> \o writeErrno(errno)],
                   serializeArgs(args))

DlpRequest_serialize(commandId, args) ==
    joinSerialized([ok |-> TRUE, buffer |-> <<commandId, Len(args)>>],
                   serializeArgs(args))

\* What a parseFrom that throws leaves: the error and how many arguments
\* of the object had been parsed.
ParseThrow(e, n) == [ok |-> FALSE, error |-> e, parsed |-> n]

\* One parsed argument in front of the rest of them.
consArg(a, r) ==
    IF ~r.ok THEN ParseThrow(r.error, r.parsed + 1)
    ELSE [ok |-> TRUE,
          args |-> <<[argId |-> a.argId, value |-> a.value]>> \o r.args,
          readOffset |-> r.readOffset]

\* The loop `for (const arg of args) readOffset += arg.parseFrom(...)` over
\* the numArgs arguments the schema declares.
RECURSIVE parseArgs(_, _, _)
RECURSIVE parseArgsAfter(_, _, _, _)
parseArgsAfter(a, buffer, readOffset, numArgs) ==
    IF ~a.ok THEN ParseThrow(a.error, 0)
    ELSE consArg(a, parseArgs(buffer, readOffset + a.readOffset, numArgs - 1))

parseArgs(buffer, readOffset, numArgs) ==
    IF numArgs = 0
    THEN [ok |-> TRUE, args |-> <<>>, readOffset |-> readOffset]
    ELSE parseArgsAfter(
             DlpArg_parseFrom(SubSeq(buffer, readOffset + 1, Len(buffer))),
             buffer, readOffset, numArgs)

\* A test that takes any byte for a response command ID.
isResponseCommandIdAny(actualCommandId) == actualCommandId \in Bytes

\* DlpResponse.parseFrom: actualCommandId & DLP_RESPONSE_TYPE_BITMASK.
isResponseCommandId(actualCommandId) ==
    BitAnd(actualCommandId, DLP_RESPONSE_TYPE_BITMASK) # 0

\* A test that takes fewer arguments than declared.
numArgsMatchAtMost(actualNumArgs, declared) == actualNumArgs <= declared

\* actualNumArgs !== args.length, negated.
numArgsMatch(actualNumArgs, declared) == actualNumArgs = declared

\* DlpResponse.parseFrom, its end: errno and the arguments.
responseParsed(errno, r) ==
    IF ~r.ok THEN r
    ELSE [ok |-> TRUE, errno |-> errno, args |-> r.args,
          readOffset |-> r.readOffset]

\* DlpResponse.parseFrom(buffer) of a response type with the given command
\* ID and number of declared arguments.
DlpResponse_parseFrom(commandId, numArgs, buffer) ==
    IF Len(buffer) < 1 THEN ParseThrow("range", 0)
    ELSE IF ~isResponseCommandId(buffer[1])
    THEN ParseThrow("invalidResponseCommandId", 0)
    ELSE IF BitAnd(buffer[1], DLP_RESPONSE_COMMAND_ID_BITMASK) # commandId
    THEN ParseThrow("commandIdMismatch", 0)
    ELSE IF Len(buffer) < 2 THEN ParseThrow("range", 0)
    ELSE IF ~numArgsMatch(buffer[2], numArgs)
    THEN ParseThrow("argumentCountMismatch", 0)
    ELSE IF Len(buffer) < 4 THEN ParseThrow("range", 0)
    ELSE responseParsed(readUInt16BE(buffer, 2), parseArgs(buffer, 4, numArgs))

\* DlpRequest.parseFrom(buffer).
DlpRequest_parseFrom(commandId, numArgs, buffer) ==
    IF Len(buffer) < 1 THEN ParseThrow("range", 0)
    ELSE IF buffer[1] # commandId THEN ParseThrow("commandIdMismatch", 0)
    ELSE IF Len(buffer) < 2 THEN ParseThrow("range", 0)
    ELSE IF ~numArgsMatch(buffer[2], numArgs)
    THEN ParseThrow("argumentCountMismatch", 0)
    ELSE parseArgs(buffer, 2, numArgs)

(***************************************************************************)
(* The codec applied to inputs.                                            *)
(***************************************************************************)
\* Arguments a request or response type declares, at most.
MaxArgs == 2
\* Length of the argument payloads that are enumerated byte by byte.
MaxPayload == 2

DLP_ARG_ID_BASE == 32

RECURSIVE SeqsUpTo(_, _)
SeqsUpTo(S, n) ==
    IF n = 0 THEN {<<>>}
    ELSE LET shorter == SeqsUpTo(S, n - 1)
         IN shorter \cup {Append(q, x) : q \in shorter, x \in S}

Fill(n, b) == [i \in 1..n |-> b]

PayloadBytes == {1, 255}
SmallPayloads == SeqsUpTo(PayloadBytes, MaxPayload)
\* Payloads at the edges of the three size classes.
BoundaryPayloads ==
    {Fill(10, 170), Fill(255, 1), Fill(256, 1)}

\* Lengths at and around the maxima of the size classes.
TestLengths ==
    {<<hi, lo>> : hi \in {0, 1, 2, 65534, 65535, 65536},
                  lo \in {0, 1, 254, 255, 256, 257, 65534, 65535}}

CommandIds == 0..127
CommandIdSamples == {0, 18, 127}
ErrnoSamples == {0, 1, 256, 65535}
ArgIds == 0..63

\* The arguments of an object whose values serialize to the payloads:
\* argument IDs count up from DLP_ARG_ID_BASE.
WithArgIds(payloads) ==
    [i \in 1..Len(payloads) |->
        [argId |-> DLP_ARG_ID_BASE + i - 1, value |-> payloads[i]]]

ArgLists ==
    {WithArgIds(ps) : ps \in SeqsUpTo(SmallPayloads, MaxArgs)}
      \cup {WithArgIds(<<p>>) : p \in BoundaryPayloads}
      \cup {WithArgIds(<<p, <<7>> >>) : p \in BoundaryPayloads}

UniformArgLists == {WithArgIds(Fill(n, <<7>>)) : n \in 0..MaxArgs}

\* An argument as a device puts it on the wire, under a first byte b whose
\* top two bits name the size class (00 tiny, 10 short, 01 long).
WireArg(b, data) ==
    LET n == Len(data)
        top == b \div 64
    IN CASE top = 0 -> <<b, n>> \o data
         [] top = 2 -> <<b, 0, n \div 256, n % 256>> \o data
         [] top = 1 -> <<b, 0, 0, 0, n \div 256, n % 256>> \o data
         [] top = 3 -> <<b, 0, n \div 256, n % 256>> \o data

\* The response of the spec's example: 92 01 00 00 20 0A and 10 bytes.
ExampleResponse == <<146, 1, 0, 0, 32, 10>> \o Fill(10, 170)

CodecInputs ==
    [op : {"argType"}, dataLength : TestLengths]
      \cup [op : {"argHeader"}, argId : ArgIds, dataLength : TestLengths]
      \cup [op : {"argSerialize"}, argId : ArgIds,
            data : {<<>>, <<1>>, Fill(255, 1), Fill(256, 1)}]
      \cup [op : {"argSerialize"}, argId : {DLP_ARG_ID_BASE},
            data : BoundaryPayloads]
      \cup [op : {"argParse"},
            buffer : {WireArg(b, d) : b \in Bytes, d \in SmallPayloads}]
      \cup [op : {"argParse"},
            buffer : {WireArg(b, d) : b \in {32, 96, 160, 224},
                                      d \in {Fill(255, 1), Fill(256, 1)}}]
      \cup {[op |-> "responseParse", commandId |-> c, numArgs |-> 1,
             buffer |-> <<b>> \o Tail(ExampleResponse)] :
                c \in CommandIds, b \in Bytes}
      \cup {[op |-> "responseParse", commandId |-> c, numArgs |-> n,
             buffer |-> DlpResponse_serialize(d, e, a).buffer] :
                c \in CommandIdSamples, n \in 0..MaxArgs,
                d \in CommandIdSamples, e \in ErrnoSamples,
                a \in UniformArgLists}
      \cup {[op |-> "requestParse", commandId |-> c, numArgs |-> n,
             buffer |-> DlpRequest_serialize(d, a).buffer] :
                c \in CommandIdSamples, n \in 0..MaxArgs,
                d \in CommandIdSamples, a \in UniformArgLists}
      \cup [op : {"responseRoundTrip"}, commandId : CommandIdSamples,
            errno : ErrnoSamples, args : ArgLists]

CodecInit ==
    /\ cin \in CodecInputs
    /\ cout = [op |-> "none"]

\* The operation of cin is applied once.
Apply(op, result) ==
    /\ cin.op = op
    /\ cout.op = "none"
    /\ cout' = [op |-> op, result |-> result]
    /\ UNCHANGED cin
    /\ UNCHANGED nonCodecVars

applyArgType == Apply("argType", argType(cin.dataLength))

applyArgHeader ==
    Apply("argHeader",
          argHeader(argType(cin.dataLength), cin.argId, cin.dataLength))

applyArgSerialize ==
    Apply("argSerialize", DlpArg_serialize(cin.argId, cin.data))

applyArgParse == Apply("argParse", DlpArg_parseFrom(cin.buffer))

applyResponseParse ==
    Apply("responseParse",
          DlpResponse_parseFrom(cin.commandId, cin.numArgs, cin.buffer))

applyRequestParse ==
    Apply("requestParse",
          DlpRequest_parseFrom(cin.commandId, cin.numArgs, cin.buffer))

\* r.serialize(), then parseFrom of the bytes on a fresh object of r's type.
roundTrip(commandId, numArgs, serialized) ==
    [serialized |-> serialized,
     parsed |-> IF serialized.ok
                THEN DlpResponse_parseFrom(commandId, numArgs,
                                           serialized.buffer)
                ELSE serialized]

applyResponseRoundTrip ==
    Apply("responseRoundTrip",
          roundTrip(cin.commandId, Len(cin.args),
                    DlpResponse_serialize(cin.commandId, cin.errno, cin.args)))

CodecNext ==
    \/ applyArgType
    \/ applyArgHeader
    \/ applyArgSerialize
    \/ applyArgParse
    \/ applyResponseParse
    \/ applyRequestParse
    \/ applyResponseRoundTrip

CodecStart ==
    /\ UsbInit /\ NetInit /\ CodecInit /\ DlpIdle /\ CfgIdle /\ StreamInit
    /\ ConduitIdle /\ ScanIdle /\ StgIdle /\ PdbIdle

CodecSpec == CodecStart /\ [][CodecNext]_vars


(***************************************************************************)
(* DlpRequest.execute (dlp-protocol.ts) on one transport: a duplex whose   *)
(* other end is a device that answers the requests it is sent one by one,  *)
(* in the order they were written.                                         *)
(***************************************************************************)

\* The requests executed: a command ID, the request's arguments and the
\* number of arguments its responseType declares (a request without
\* arguments whose response has one, or the reverse).
DlpRequests ==
    {[commandId |-> c, args |-> WithArgIds(Fill(n, <<7>>)),
      responseArgs |-> 1 - n] : c \in {18, 19}, n \in 0..1}

\* Error codes a device answers with: 0 is success.
DlpErrnos == {0, 1, 256}

DlpInit ==
    /\ request \in [Calls -> DlpRequests]
    /\ DlpIdleCalls

\* The device's answer to a request: the response of its command, with an
\* error code; an error response may come without the arguments.
deviceResponse(req, errno, withArgs) ==
    DlpResponse_serialize(
        req.commandId, errno,
        WithArgIds(Fill(IF withArgs THEN req.responseArgs ELSE 0, <<7>>))
    ).buffer

\* execute up to its await: this.serialize(), transport.write(),
\* pEvent(transport, 'data').
execute(k) ==
    /\ epc[k] = "none"
    /\ written' = Append(written,
           [call |-> k,
            buffer |-> DlpRequest_serialize(request[k].commandId,
                                            request[k].args).buffer])
    /\ epc' = [epc EXCEPT ![k] = "pEvent"]
    /\ UNCHANGED <<request, answered, rawResponse, response, nonDlpVars>>

\* Who receives a 'data' event: every pEvent listener there is.
dataListeners == {k \in Calls : epc[k] = "pEvent"}

\* The transport emits 'data' with the device's answer to the oldest
\* request not answered yet. The stream emits only while a 'data' listener
\* is attached, and the calls a message resumed run before the next one.
transportData ==
    /\ answered < Len(written)
    /\ dataListeners # {}
    /\ \A k \in Calls : epc[k] # "parse"
    /\ \E errno \in DlpErrnos, withArgs \in BOOLEAN :
          /\ errno = 0 => withArgs
          /\ rawResponse' =
                [k \in Calls |->
                    IF k \in dataListeners
                    THEN [seq |-> answered + 1,
                          buffer |-> deviceResponse(
                              request[written[answered + 1].call],
                              errno, withArgs)]
                    ELSE rawResponse[k]]
    /\ epc' = [k \in Calls |->
                 IF k \in dataListeners THEN "parse" ELSE epc[k]]
    /\ answered' = answered + 1
    /\ UNCHANGED <<request, written, response, nonDlpVars>>

\* What execute does with the parsed response: it returns it.
executeReturn(parsed) == parsed

\* execute after its await: new this.responseType(), response.parseFrom(
\* rawResponse), return response.
executeResume(k) ==
    /\ epc[k] = "parse"
    /\ response' = [response EXCEPT ![k] =
           executeReturn(DlpResponse_parseFrom(request[k].commandId,
                                               request[k].responseArgs,
                                               rawResponse[k].buffer))]
    /\ epc' = [epc EXCEPT ![k] =
           IF response'[k].ok THEN "returned" ELSE "thrown"]
    /\ UNCHANGED <<request, written, answered, rawResponse, nonDlpVars>>

DlpNext ==
    \/ \E k \in Calls : execute(k)
    \/ transportData
    \/ \E k \in Calls : executeResume(k)

DlpStart ==
    /\ UsbInit /\ NetInit /\ CodecIdle /\ DlpInit /\ CfgIdle /\ StreamInit
    /\ ConduitIdle /\ ScanIdle /\ StgIdle /\ PdbIdle

DlpSpec == DlpStart /\ [][DlpNext]_vars


(***************************************************************************)
(* openDevice, step 3 (part_000): the connection configuration of an       *)
(* opened device, from its initialization routine or from its descriptors. *)
(***************************************************************************)

\* Endpoints as the descriptors list them.
Endpoints ==
    [endpointNumber : 1..2, direction : {"in", "out"},
     type : {"bulk", "interrupt"}, packetSize : {64, 8}]

EndpointLists == UNION {[1..n -> Endpoints] : n \in 0..MaxEndpoints}

\* Devices as WebUSBDevice shows them: no configuration selected, a
\* configuration without interfaces, or interface 0 with its endpoints.
UsbDevices ==
    {[configuration |-> FALSE, interfaces |-> 0, endpoints |-> <<>>],
     [configuration |-> TRUE, interfaces |-> 0, endpoints |-> <<>>]}
      \cup {[configuration |-> TRUE, interfaces |-> 1, endpoints |-> es] :
               es \in EndpointLists}

Endpoint(n, d, t, s) ==
    [endpointNumber |-> n, direction |-> d, type |-> t, packetSize |-> s]

\* The devices the initialization routines are run against: no endpoints;
\* one IN and one OUT HotSync endpoint; two OUT endpoints of one number;
\* two OUT endpoints and no usable IN endpoint; two OUT endpoints listed
\* against the order of their numbers.
DialectDevices ==
    {[configuration |-> TRUE, interfaces |-> 1, endpoints |-> es] :
        es \in {<<>>,
                <<Endpoint(1, "in", "bulk", 64), Endpoint(2, "out", "bulk", 64)>>,
                <<Endpoint(1, "out", "interrupt", 8),
                  Endpoint(1, "out", "bulk", 64),
                  Endpoint(2, "in", "bulk", 64)>>,
                <<Endpoint(1, "out", "bulk", 64), Endpoint(2, "out", "bulk", 8),
                  Endpoint(1, "in", "bulk", 8)>>,
                <<Endpoint(2, "out", "bulk", 64), Endpoint(1, "in", "bulk", 64),
                  Endpoint(1, "out", "bulk", 64)>>}}

\* A test that takes bulk endpoints of any packet size.
isValidEndpointAnySize(e) == e.type = "bulk"

\* ({type, packetSize}) => type === 'bulk' && packetSize === 0x40
isValidEndpoint(e) == e.type = "bulk" /\ e.packetSize = 64

isIn(e) == e.direction = "in"
isOut(e) == e.direction = "out"

\* validEndpoints.find(in), validEndpoints.find(out) and the return.
configOfEndpoints(ins, outs) ==
    IF ins = <<>> \/ outs = <<>>
    THEN NoConfig
    ELSE Config(ins[1].endpointNumber, outs[1].endpointNumber)

configOfValidEndpoints(validEndpoints) ==
    configOfEndpoints(SelectSeq(validEndpoints, isIn),
                      SelectSeq(validEndpoints, isOut))

getConnectionConfigFromUsbDeviceInfo(dev) ==
    IF ~dev.configuration THEN NoConfig
    ELSE IF dev.interfaces < 1 THEN NoConfig
    ELSE configOfValidEndpoints(SelectSeq(dev.endpoints, isValidEndpoint))

\* lodash uniq: the first occurrence of every value, in order.
RECURSIVE uniq(_)
uniq(s) ==
    IF s = <<>> THEN <<>>
    ELSE <<s[1]>> \o uniq(SelectSeq(Tail(s), LAMBDA x : x # s[1]))

endpointNumbers(es) == [i \in 1..Len(es) |-> es[i].endpointNumber]

\* sendUsbControlRequestToFirstSuccessfulEndpoint: the endpoints it tries.
outEndpoints(dev) == uniq(endpointNumbers(SelectSeq(dev.endpoints, isOut)))

\* What becomes of one control transfer in sendUsbControlRequest:
\* controlTransferIn throws, ends with a status other than 'ok', gives no
\* data, gives data that response.deserialize rejects, or all is well.
TransferResults == {"throw", "stall", "noData", "unparseable", "ok"}

\* A test that does without the data.
requestSucceededWithoutData(result) == result \in {"ok", "noData"}

\* sendUsbControlRequest returns the response (it throws otherwise).
requestSucceeded(result) == result = "ok"

\* for (const endpoint of endpoints) { try { return await ... } catch {} }
\* from the i-th endpoint on: the position of the endpoint whose request
\* succeeds, 0 when the loop ends without one.
RECURSIVE firstSuccessfulFrom(_, _)
firstSuccessfulFrom(results, i) ==
    IF i > Len(results) THEN 0
    ELSE IF requestSucceeded(results[i]) THEN i
    ELSE firstSuccessfulFrom(results, i + 1)

firstSuccessful(results) == firstSuccessfulFrom(results, 1)

\* The control transfers of one such call: to each endpoint in turn up to
\* the k-th, the first that succeeds; to all of them when none does (k = 0).
attempts(req, outs, results, k) ==
    [i \in 1..(IF k = 0 THEN Len(outs) ELSE k) |->
        [request |-> req, requestType |-> "vendor", recipient |-> "endpoint",
         index |-> outs[i], result |-> results[i]]]

\* A control transfer sent to the device by sendUsbControlRequest.
deviceRequest(req, result) ==
    [request |-> req, requestType |-> "standard", recipient |-> "device",
     index |-> 0, result |-> result]

HOT_SYNC_PORT_TYPE == "cnys"

\* ExtConnectionPortInfo of the i-th entry of ports.
ExtPortsAt(i) ==
    {[type |-> t, portNumber |-> i + 1,
      endpoints |-> [inEndpoint |-> i + 2, outEndpoint |-> i + 4]] :
        t \in {HOT_SYNC_PORT_TYPE, "AAAA"}}

\* GetExtConnectionInfoResponse: ports is an array of length 2.
ExtResponses ==
    {[request |-> "GET_EXT_CONNECTION_INFO", numPorts |-> n,
      hasDifferentEndpoints |-> h, ports |-> <<p1, p2>>] :
        n \in 0..2, h \in 0..2, p1 \in ExtPortsAt(1), p2 \in ExtPortsAt(2)}

\* ConnectionPortInfo of the i-th entry of ports.
PortsAt(i) ==
    {[functionType |-> f, portNumber |-> i + 1] : f \in {"HOT_SYNC", "GENERIC"}}

\* GetConnectionInfoResponse.
ConnResponses ==
    {[request |-> "GET_CONNECTION_INFO", numPorts |-> n, ports |-> <<p1, p2>>] :
        n \in 0..2, p1 \in PortsAt(1), p2 \in PortsAt(2)}

\* A slice that keeps every entry of ports.
sliceWhole(ports, n) == ports

\* response.ports.slice(0, response.numPorts)
slice(ports, n) == SubSeq(ports, 1, IF n < Len(ports) THEN n ELSE Len(ports))

isHotSyncExtPort(p) == p.type = HOT_SYNC_PORT_TYPE
isHotSyncPort(p) == p.functionType = "HOT_SYNC"

\* A test of the flag that takes 1 only.
truthyOne(v) == v = 1

\* if (response.hasDifferentEndpoints)
truthy(v) == v # 0

\* getConnectionConfigUsingGetExtConnectionInfo once the response is
\* there; hits are the ports of type 'cnys' among the first numPorts.
extPortConfig(hasDifferentEndpoints, hits) ==
    IF hits = <<>> THEN NoConfig
    ELSE IF truthy(hasDifferentEndpoints)
    THEN Config(hits[1].endpoints.inEndpoint, hits[1].endpoints.outEndpoint)
    ELSE Config(hits[1].portNumber, hits[1].portNumber)

configOfExtResponse(r) ==
    extPortConfig(r.hasDifferentEndpoints,
                  SelectSeq(slice(r.ports, r.numPorts), isHotSyncExtPort))

\* getConnectionConfigUsingGetConnectionInfo once the response is there.
portConfig(hits) ==
    IF hits = <<>> THEN NoConfig
    ELSE Config(hits[1].portNumber, hits[1].portNumber)

configOfConnResponse(r) ==
    portConfig(SelectSeq(slice(r.ports, r.numPorts), isHotSyncPort))

CfgInit ==
    /\ \/ usbDevice \in UsbDevices /\ initType = "NONE"
       \/ usbDevice \in DialectDevices
            /\ initType \in {"GENERIC", "EARLY_SONY_CLIE"}
    /\ ipc = "init"
    /\ CfgIdleCalls

\* What the init function came to: a configuration, null, or it threw.
Returned(config) ==
    [kind |-> IF config.found THEN "config" ELSE "null", config |-> config]
Threw == [kind |-> "threw", config |-> NoConfig]

\* An inference whatever the init function found.
needsInferenceAlways(config) == TRUE

\* if (!connectionConfig)
needsInference(config) == ~config.found

\* openDevice from the end of the init function (lines 457-488): the
\* inference from the descriptors and the stream.
openDeviceAfterInit(outcome) ==
    /\ initResult' = outcome
    /\ inferred' =
         IF needsInference(outcome.config)
         THEN [called |-> TRUE,
               config |-> getConnectionConfigFromUsbDeviceInfo(usbDevice)]
         ELSE [called |-> FALSE, config |-> NoConfig]
    /\ connectionConfig' =
         IF needsInference(outcome.config)
         THEN getConnectionConfigFromUsbDeviceInfo(usbDevice)
         ELSE outcome.config
    /\ openResult' = IF connectionConfig'.found THEN "stream" ELSE "null"
    /\ ipc' = "returned"

\* getConnectionConfigFromUsbDeviceInfo(device), called on its own.
applyFromUsbDeviceInfo ==
    /\ ipc = "init"
    /\ initType = "NONE"
    /\ inferred' = [called |-> TRUE,
                    config |-> getConnectionConfigFromUsbDeviceInfo(usbDevice)]
    /\ ipc' = "applied"
    /\ UNCHANGED <<usbDevice, initType, controlRequests, lastResponse,
                   initConfig, initResult, connectionConfig, openResult,
                   nonCfgVars>>

\* openDevice calls this.USB_INIT_FNS[deviceConfig.initType](device); it
\* does so for a device with a configuration and a claimed interface 0.
callInitFn ==
    /\ ipc = "init"
    /\ usbDevice.configuration
    /\ usbDevice.interfaces >= 1
    /\ IF initType = "NONE"
       THEN openDeviceAfterInit(Returned(NoConfig))
       ELSE /\ ipc' = IF initType = "GENERIC"
                      THEN "GET_EXT_CONNECTION_INFO"
                      ELSE "GET_CONFIGURATION"
            /\ UNCHANGED <<initResult, inferred, connectionConfig, openResult>>
    /\ UNCHANGED <<usbDevice, initType, controlRequests, lastResponse,
                   initConfig, nonCfgVars>>

\* A routine that goes on to GET_CONNECTION_INFO whatever was found.
genericAfterExtFallingThrough(config) ==
    /\ ipc' = "GET_CONNECTION_INFO"
    /\ UNCHANGED <<initResult, inferred, connectionConfig, openResult>>

\* GENERIC after getConnectionConfigUsingGetExtConnectionInfo returned.
genericAfterExt(config) ==
    IF config.found
    THEN openDeviceAfterInit(Returned(config))
    ELSE /\ ipc' = "GET_CONNECTION_INFO"
         /\ UNCHANGED <<initResult, inferred, connectionConfig, openResult>>

getExtConnectionInfo ==
    /\ ipc = "GET_EXT_CONNECTION_INFO"
    /\ \E results \in [1..Len(outEndpoints(usbDevice)) -> TransferResults],
          k \in 0..Len(outEndpoints(usbDevice)) :
         /\ k = firstSuccessful(results)
         /\ controlRequests' = controlRequests \o
              attempts("GET_EXT_CONNECTION_INFO", outEndpoints(usbDevice), results, k)
         /\ IF k = 0
            THEN lastResponse' = lastResponse /\ genericAfterExt(NoConfig)
            ELSE \E r \in ExtResponses :
                    /\ lastResponse' = r
                    /\ genericAfterExt(configOfExtResponse(r))
    /\ UNCHANGED <<usbDevice, initType, initConfig, nonCfgVars>>

\* GENERIC after getConnectionConfigUsingGetConnectionInfo returned.
genericAfterConn(config) ==
    IF config.found
    THEN /\ ipc' = "GET_NUM_BYTES_AVAILABLE"
         /\ initConfig' = config
         /\ UNCHANGED <<initResult, inferred, connectionConfig, openResult>>
    ELSE /\ openDeviceAfterInit(Returned(NoConfig))
         /\ UNCHANGED initConfig

getConnectionInfo ==
    /\ ipc = "GET_CONNECTION_INFO"
    /\ \E results \in [1..Len(outEndpoints(usbDevice)) -> TransferResults],
          k \in 0..Len(outEndpoints(usbDevice)) :
         /\ k = firstSuccessful(results)
         /\ controlRequests' = controlRequests \o
              attempts("GET_CONNECTION_INFO", outEndpoints(usbDevice), results, k)
         /\ IF k = 0
            THEN lastResponse' = lastResponse /\ genericAfterConn(NoConfig)
            ELSE \E r \in ConnResponses :
                    /\ lastResponse' = r
                    /\ genericAfterConn(configOfConnResponse(r))
    /\ UNCHANGED <<usbDevice, initType, nonCfgVars>>

\* GENERIC: the GET_NUM_BYTES_AVAILABLE request, whose failure is not
\* caught by the init function.
getNumBytesAvailable ==
    /\ ipc = "GET_NUM_BYTES_AVAILABLE"
    /\ \E results \in [1..Len(outEndpoints(usbDevice)) -> TransferResults],
          k \in 0..Len(outEndpoints(usbDevice)) :
         /\ k = firstSuccessful(results)
         /\ controlRequests' = controlRequests \o
              attempts("GET_NUM_BYTES_AVAILABLE", outEndpoints(usbDevice), results, k)
         /\ IF k = 0
            THEN lastResponse' = lastResponse /\ openDeviceAfterInit(Threw)
            ELSE /\ lastResponse' = [request |-> "GET_NUM_BYTES_AVAILABLE"]
                 /\ openDeviceAfterInit(Returned(initConfig))
    /\ UNCHANGED <<usbDevice, initType, initConfig, nonCfgVars>>

\* A routine that sends GET_INTERFACE whatever became of the first request.
sonyAfterGetConfigurationRegardless(ok) ==
    /\ ipc' = "GET_INTERFACE"
    /\ UNCHANGED <<initResult, inferred, connectionConfig, openResult>>

\* EARLY_SONY_CLIE after the first sendUsbControlRequest: it threw, or the
\* routine goes on to the second.
sonyAfterGetConfiguration(ok) ==
    IF ok
    THEN /\ ipc' = "GET_INTERFACE"
         /\ UNCHANGED <<initResult, inferred, connectionConfig, openResult>>
    ELSE openDeviceAfterInit(Threw)

\* EARLY_SONY_CLIE: sendUsbControlRequest of GET_CONFIGURATION to the
\* device.
sonyGetConfiguration ==
    /\ ipc = "GET_CONFIGURATION"
    /\ \E result \in TransferResults :
         /\ controlRequests' =
              Append(controlRequests, deviceRequest("GET_CONFIGURATION", result))
         /\ lastResponse' = IF requestSucceeded(result)
                            THEN [request |-> "GET_CONFIGURATION"]
                            ELSE lastResponse
         /\ sonyAfterGetConfiguration(requestSucceeded(result))
    /\ UNCHANGED <<usbDevice, initType, initConfig, nonCfgVars>>

\* EARLY_SONY_CLIE: GET_INTERFACE, then return null.
sonyGetInterface ==
    /\ ipc = "GET_INTERFACE"
    /\ \E result \in TransferResults :
         /\ controlRequests' =
              Append(controlRequests, deviceRequest("GET_INTERFACE", result))
         /\ IF requestSucceeded(result)
            THEN /\ lastResponse' = [request |-> "GET_INTERFACE"]
                 /\ openDeviceAfterInit(Returned(NoConfig))
            ELSE lastResponse' = lastResponse /\ openDeviceAfterInit(Threw)
    /\ UNCHANGED <<usbDevice, initType, initConfig, nonCfgVars>>

CfgNext ==
    \/ applyFromUsbDeviceInfo
    \/ callInitFn
    \/ getExtConnectionInfo
    \/ getConnectionInfo
    \/ getNumBytesAvailable
    \/ sonyGetConfiguration
    \/ sonyGetInterface

CfgStart ==
    /\ UsbInit /\ NetInit /\ CodecIdle /\ DlpIdle /\ CfgInit /\ StreamInit
    /\ ConduitIdle /\ ScanIdle /\ StgIdle /\ PdbIdle

ConfigSpec == CfgStart /\ [][CfgNext]_vars


(***************************************************************************)
(* UsbConnectionStream (part_000): a Duplex over the bulk endpoints. The   *)
(* stream machinery calls _read when it wants data, _write for each chunk  *)
(* and _final once end() was called and the writes are done; an error      *)
(* passed to a callback or to destroy() destroys the stream and emits      *)
(* 'error', once.                                                          *)
(***************************************************************************)

\* this.destroy(err), or callback(err) of _write: no effect on a stream
\* that is destroyed already.
destroyWith(err) ==
    IF destroyed # "no"
    THEN UNCHANGED <<destroyed, streamEvents>>
    ELSE /\ destroyed' = err
         /\ streamEvents' = Append(streamEvents, "error")

\* _read up to its await: this.device.transferIn(this.config.inEndpoint, 64).
streamRead ==
    /\ destroyed = "no"
    /\ rpc = "idle"
    /\ pushed < MaxChunks
    /\ rpc' = "transferIn"
    /\ UNCHANGED <<shouldClose, wpc, ending, destroyed, streamEvents, pushed,
                   writtenOut, lastTransferIn, nonStreamVars>>

TransferInResults == {"throw", "ok", "okNoData", "stall", "babble"}

\* A catch block that never takes the failure for expected.
readFailureExpectedNever(flag) == FALSE

\* catch (e) { if (this.shouldClose) return; ... }
readFailureExpected(flag) == flag

\* _read after its await.
readSettled(result) ==
    IF result = "throw"
    THEN IF readFailureExpected(shouldClose)
         THEN UNCHANGED <<destroyed, streamEvents, pushed>>
         ELSE destroyWith("readError") /\ UNCHANGED pushed
    ELSE IF result \in {"ok", "okNoData"}
    THEN /\ pushed' = IF destroyed = "no" THEN pushed + 1 ELSE pushed
         /\ UNCHANGED <<destroyed, streamEvents>>
    ELSE destroyWith("readStatus") /\ UNCHANGED pushed

transferInSettled ==
    /\ rpc = "transferIn"
    /\ \E result \in TransferInResults :
         /\ lastTransferIn' = result
         /\ readSettled(result)
    /\ rpc' = "idle"
    /\ UNCHANGED <<shouldClose, wpc, ending, writtenOut, nonStreamVars>>

\* _write up to its await: a chunk that is no Buffer is refused, a Buffer
\* goes to this.device.transferOut.
streamWrite ==
    /\ destroyed = "no"
    /\ ~ending
    /\ wpc = "idle"
    /\ writtenOut < MaxChunks
    /\ \E encoding \in {"buffer", "utf8"} :
         IF encoding # "buffer"
         THEN destroyWith("encoding") /\ UNCHANGED wpc
         ELSE wpc' = "transferOut" /\ UNCHANGED <<destroyed, streamEvents>>
    /\ UNCHANGED <<shouldClose, rpc, ending, pushed, writtenOut,
                   lastTransferIn, nonStreamVars>>

\* _write after its await: callback(null) for status 'ok', callback(error)
\* otherwise; a transferOut that throws rejects _write's promise and the
\* callback is not called.
transferOutSettled ==
    /\ wpc = "transferOut"
    /\ \E result \in {"throw", "ok", "stall"} :
         IF result = "throw"
         THEN wpc' = "hung" /\ UNCHANGED <<destroyed, streamEvents, writtenOut>>
         ELSE IF result = "ok"
         THEN /\ wpc' = "idle"
              /\ writtenOut' = writtenOut + 1
              /\ UNCHANGED <<destroyed, streamEvents>>
         ELSE /\ wpc' = "idle"
              /\ destroyWith("writeStatus")
              /\ UNCHANGED writtenOut
    /\ UNCHANGED <<shouldClose, rpc, ending, pushed, lastTransferIn,
                   nonStreamVars>>

\* stream.end(), as closeDevice calls it.
streamEnd ==
    /\ ~ending
    /\ ending' = TRUE
    /\ UNCHANGED <<shouldClose, rpc, wpc, destroyed, streamEvents, pushed,
                   writtenOut, lastTransferIn, nonStreamVars>>

\* _final, called once the writes before end() are done: shouldClose is
\* set and callback(null) lets 'finish' be emitted.
streamFinal ==
    /\ ending
    /\ wpc = "idle"
    /\ destroyed = "no"
    /\ ~shouldClose
    /\ shouldClose' = TRUE
    /\ streamEvents' = Append(streamEvents, "finish")
    /\ UNCHANGED <<rpc, wpc, ending, destroyed, pushed, writtenOut,
                   lastTransferIn, nonStreamVars>>

StreamNext ==
    \/ streamRead
    \/ transferInSettled
    \/ streamWrite
    \/ transferOutSettled
    \/ streamEnd
    \/ streamFinal

StreamStart ==
    /\ UsbInit /\ NetInit /\ CodecIdle /\ DlpIdle /\ CfgIdle /\ StreamInit
    /\ ConduitIdle /\ ScanIdle /\ StgIdle /\ PdbIdle

StreamSpec == StreamStart /\ [][StreamNext]_vars


(***************************************************************************)
(* SyncDatabasesConduit (part_003).  execute awaits one call at a time:    *)
(* kpc names the call it is suspended at, kcalls lists the calls made.     *)
(* In the FIRST_SYNC branch dbStg.writeDatabase is called and not awaited. *)
(***************************************************************************)
DbNames == 1..MaxDbs

\* A DlpDBInfoType: the name and the two flags the conduit reads.
DbInfos == [name : DbNames, resDB : BOOLEAN, backup : BOOLEAN]

\* Database lists of a device: no two databases share a name.
DbLists ==
    {list \in UNION {[1..n -> DbInfos] : n \in 0..MaxDbs} :
        \A i, j \in 1..Len(list) : i # j => list[i].name # list[j].name}

\* The three sync types and a value that is none of them.
SyncTypes == {"FIRST_SYNC", "SLOW_SYNC", "FAST_SYNC", "NOT_SET"}

\* The file '<name>.<ext>'.
File(name, ext) == [name |-> name, ext |-> ext]

\* The ConduitData a conduit may be given: dbList is a list or null.
ConduitDatas(syncTypes) ==
    [dbListIsNull : {FALSE}, dbList : DbLists, syncType : syncTypes]
    \cup [dbListIsNull : {TRUE}, dbList : {<<>>}, syncType : syncTypes]

\* A conduit about to be executed.  Each conduit is given the inputs it
\* reads: SyncDatabases the sync type and the .pdb files, DownloadNew the
\* files of both kinds, Restore neither.
ConduitInit ==
    /\ \/ /\ conduit = "SyncDatabases"
          /\ conduitData \in ConduitDatas(SyncTypes)
          /\ desktop \in SUBSET {File(n, "pdb") : n \in DbNames}
       \/ /\ conduit = "DownloadNewResources"
          /\ conduitData \in ConduitDatas({"NOT_SET"})
          /\ desktop \in SUBSET {File(n, e) : n \in DbNames, e \in {"pdb", "prc"}}
       \/ /\ conduit = "RestoreResources"
          /\ conduitData \in ConduitDatas({"NOT_SET"})
          /\ desktop = {}
    /\ kdbs = <<>>
    /\ kcount = 0
    /\ kpc = "idle"
    /\ kindex = 0
    /\ kcalls = <<>>

Call(op, name) == [op |-> op, name |-> name]

Suspended(p, i, cs) == [kpc |-> p, kindex |-> i, kcalls |-> cs]

\* execute goes on to where r says, with count in its counter.
KStep(r, count) ==
    /\ kpc' = r.kpc
    /\ kindex' = r.kindex
    /\ kcalls' = r.kcalls
    /\ kcount' = count
    /\ UNCHANGED <<conduit, conduitData, desktop>>
    /\ UNCHANGED nonConduitVars

\* execute goes on to where r says.
KApply(r) == KStep(r, kcount) /\ UNCHANGED kdbs

\* A FIRST_SYNC loop that ends at the first resource database.
firstSyncLoopStoppingAtResDB(list, i, cs) ==
    IF i > Len(list) \/ list[i].resDB
    THEN Suspended("resolved", i, cs)
    ELSE Suspended("readRawDb", i, Append(cs, Call("readRawDb", list[i].name)))

\* The FIRST_SYNC loop at index i: its test, then getRawDbFromDevice.
firstSyncLoop(list, i, cs) ==
    IF i > Len(list)
    THEN Suspended("resolved", i, cs)
    ELSE Suspended("readRawDb", i, Append(cs, Call("readRawDb", list[i].name)))

\* A shouldSkipRecord that does not look at the backup flag.
shouldSkipRecordAnyBackup(dbInfo) == dbInfo.resDB

\* The part of shouldSkipRecord that precedes its await.
shouldSkipRecord(dbInfo) == dbInfo.resDB \/ ~dbInfo.backup

\* The SLOW_SYNC / FAST_SYNC loop at index i: its test, then
\* shouldSkipRecord up to dbStg.databaseExists.
RECURSIVE syncLoop(_, _, _)
syncLoop(list, i, cs) ==
    IF i > Len(list)
    THEN Suspended("resolved", i, cs)
    ELSE IF shouldSkipRecord(list[i])
    THEN syncLoop(list, i + 1, cs)
    ELSE Suspended("databaseExists", i,
                   Append(cs, Call("databaseExists", list[i].name)))

\* execute up to its first await.
conduitExecuteUnchecked ==
    /\ conduit = "SyncDatabases"
    /\ kpc = "idle"
    /\ KApply(Suspended("OpenConduit", 0,
                        Append(kcalls, Call("OpenConduit", 0))))

conduitExecute ==
    /\ conduit = "SyncDatabases"
    /\ kpc = "idle"
    /\ KApply(IF conduitData.dbListIsNull
              THEN Suspended("rejected", 0, kcalls)
              ELSE Suspended("OpenConduit", 0,
                             Append(kcalls, Call("OpenConduit", 0))))

\* execute resumed after OpenConduit: the switch on syncType.
afterOpenConduit(data, cs) ==
    IF data.syncType = "FIRST_SYNC" THEN firstSyncLoop(data.dbList, 1, cs)
    ELSE IF data.syncType \in {"SLOW_SYNC", "FAST_SYNC"}
    THEN syncLoop(data.dbList, 1, cs)
    ELSE Suspended("rejected", 0, cs)

openConduitSettled ==
    /\ kpc = "OpenConduit"
    /\ \E ok \in BOOLEAN :
         KApply(IF ok THEN afterOpenConduit(conduitData, kcalls)
                ELSE Suspended("rejected", 0, kcalls))

\* What getRawDbFromDevice comes to: it throws, or returns a database whose
\* header has the resDB attribute, or one whose header has not.
RawDbOutcomes == {"throw", "resDB", "db"}

\* dbStg.writeDatabase(userName, rawDb), not awaited, and the next
\* iteration.
firstSyncWrite(list, i, cs) ==
    firstSyncLoop(list, i + 1, Append(cs, Call("writeDatabase", list[i].name)))

readRawDbSettled ==
    /\ kpc = "readRawDb"
    /\ \E outcome \in RawDbOutcomes :
         KApply(IF outcome = "throw"
                THEN Suspended("rejected", kindex, kcalls)
                ELSE IF outcome = "resDB"
                THEN firstSyncWrite(conduitData.dbList, kindex, kcalls)
                ELSE Suspended("cleanUpDb", kindex,
                               Append(kcalls,
                                      Call("cleanUpDb",
                                           conduitData.dbList[kindex].name))))

cleanUpDbSettled ==
    /\ kpc = "cleanUpDb"
    /\ \E ok \in BOOLEAN :
         KApply(IF ok THEN firstSyncWrite(conduitData.dbList, kindex, kcalls)
                ELSE Suspended("rejected", kindex, kcalls))

\* shouldSkipRecord resumed after dbStg.databaseExists, and the loop body
\* up to dbStg.readDatabase.
afterDatabaseExists(list, i, cs, exists) ==
    IF exists
    THEN Suspended("readDatabase", i,
                   Append(cs, Call("readDatabase", list[i].name)))
    ELSE syncLoop(list, i + 1, cs)

databaseExistsSettled ==
    /\ kpc = "databaseExists"
    /\ \E ok \in BOOLEAN :
         KApply(IF ok
                THEN afterDatabaseExists(
                         conduitData.dbList, kindex, kcalls,
                         File(conduitData.dbList[kindex].name, "pdb")
                             \in desktop)
                ELSE Suspended("rejected", kindex, kcalls))

\* The sync function of the sync type.
syncDbOf(syncType) ==
    IF syncType = "FAST_SYNC" THEN "fastSyncDb" ELSE "slowSyncDb"

readDatabaseSettled ==
    /\ kpc = "readDatabase"
    /\ \E ok \in BOOLEAN :
         KApply(IF ok
                THEN Suspended("syncDb", kindex,
                               Append(kcalls,
                                      Call(syncDbOf(conduitData.syncType),
                                           conduitData.dbList[kindex].name)))
                ELSE Suspended("rejected", kindex, kcalls))

\* The loop body resumed after fastSyncDb / slowSyncDb: the write back, or
\* the catch clause and the next iteration.
afterSyncDb(list, i, cs, ok) ==
    IF ok
    THEN Suspended("writeDatabase", i,
                   Append(cs, Call("writeDatabase", list[i].name)))
    ELSE syncLoop(list, i + 1, Append(cs, Call("console.error", list[i].name)))

syncDbSettled ==
    /\ kpc = "syncDb"
    /\ \E ok \in BOOLEAN :
         KApply(afterSyncDb(conduitData.dbList, kindex, kcalls, ok))

\* The awaited writeDatabase of the SLOW_SYNC / FAST_SYNC branch settled: a
\* rejection is caught, and the loop goes on either way.
writeDatabaseSettled ==
    /\ kpc = "writeDatabase"
    /\ \E ok \in BOOLEAN :
         KApply(syncLoop(conduitData.dbList, kindex + 1,
                         IF ok THEN kcalls
                         ELSE Append(kcalls,
                                     Call("console.error",
                                          conduitData.dbList[kindex].name))))

(***************************************************************************)
(* DownloadNewResourcesConduit.execute                                     *)
(* (src/conduits/download-rsc-conduit.ts:17-75).                           *)
(***************************************************************************)
FileCall(op, name, ext) == [op |-> op, name |-> name, ext |-> ext]

\* const ext = dbInfo.dbFlags.resDB ? 'prc' : 'pdb'
downloadExtAlwaysPdb(dbInfo) == "pdb"
downloadExt(dbInfo) == IF dbInfo.resDB THEN "prc" ELSE "pdb"

\* The for loop from database i up to its first await, the call of
\* dbStg.databaseExistsInStorage(userName, fileName).
downloadLoop(list, i, cs) ==
    IF i > Len(list) THEN Suspended("resolved", i, cs)
    ELSE Suspended("download.databaseExists", i,
                   Append(cs, FileCall("databaseExistsInStorage",
                                       list[i].name, downloadExt(list[i]))))

downloadExecute ==
    /\ conduit = "DownloadNewResources"
    /\ kpc = "idle"
    /\ KApply(IF conduitData.dbListIsNull
              THEN Suspended("rejected", 0, kcalls)
              ELSE Suspended("download.OpenConduit", 0,
                             Append(kcalls, Call("OpenConduit", 0))))

downloadOpenConduitSettled ==
    /\ kpc = "download.OpenConduit"
    /\ \E ok \in BOOLEAN :
         KApply(IF ok THEN downloadLoop(conduitData.dbList, 1, kcalls)
                ELSE Suspended("rejected", 0, kcalls))

\* The await of databaseExistsInStorage is outside the try block; inside
\* it readRawDb is the first call.
downloadExistsSettled ==
    /\ kpc = "download.databaseExists"
    /\ \E ok \in BOOLEAN :
         LET dbInfo == conduitData.dbList[kindex]
         IN  KApply(IF ~ok THEN Suspended("rejected", kindex, kcalls)
                    ELSE IF File(dbInfo.name, downloadExt(dbInfo)) \in desktop
                    THEN downloadLoop(conduitData.dbList, kindex + 1, kcalls)
                    ELSE Suspended("download.readRawDb", kindex,
                                   Append(kcalls,
                                          Call("readRawDb", dbInfo.name))))

\* The catch block of the loop body and the next iteration.
downloadCaught(list, i, cs) ==
    downloadLoop(list, i + 1, Append(cs, Call("console.error", list[i].name)))

\* dbStg.writeDatabaseToStorage(userName, rawDb), not awaited,
\* downloadCount++ and the next iteration.
downloadWrite(list, i, cs) ==
    KStep(downloadLoop(list, i + 1,
                       Append(cs, Call("writeDatabaseToStorage",
                                       list[i].name))),
          kcount + 1)
    /\ UNCHANGED kdbs

downloadReadRawDbSettled ==
    /\ kpc = "download.readRawDb"
    /\ \E ok \in BOOLEAN :
         LET list == conduitData.dbList
         IN  IF ~ok THEN KApply(downloadCaught(list, kindex, kcalls))
             ELSE IF list[kindex].resDB
             THEN downloadWrite(list, kindex, kcalls)
             ELSE KApply(Suspended("download.cleanUpDb", kindex,
                                   Append(kcalls,
                                          Call("cleanUpDb",
                                               list[kindex].name))))

downloadCleanUpDbSettled ==
    /\ kpc = "download.cleanUpDb"
    /\ \E ok \in BOOLEAN :
         IF ok THEN downloadWrite(conduitData.dbList, kindex, kcalls)
         ELSE KApply(downloadCaught(conduitData.dbList, kindex, kcalls))

(***************************************************************************)
(* RestoreResourcesConduit.execute                                         *)
(* (src/conduits/restore-resources-conduit.ts:13-48).                      *)
(***************************************************************************)
\* What dbStg.getAllDatabasesFromStorage(userName) may resolve to.
StoredDbs == UNION {[1..n -> DbNames] : n \in 0..MaxDbs}

\* writeDb(dlpConnection, db, {overwrite: true})
writeDbCallNoOverwrite(name) ==
    [op |-> "writeDb", name |-> name, overwrite |-> FALSE]
writeDbCall(name) == [op |-> "writeDb", name |-> name, overwrite |-> TRUE]

\* The for loop from database i up to its await, the call of writeDb.
restoreLoop(dbs, i, cs) ==
    IF i > Len(dbs) THEN Suspended("resolved", i, cs)
    ELSE Suspended("restore.writeDb", i, Append(cs, writeDbCall(dbs[i])))

restoreExecute ==
    /\ conduit = "RestoreResources"
    /\ kpc = "idle"
    /\ KApply(Suspended("restore.OpenConduit", 0,
                        Append(kcalls, Call("OpenConduit", 0))))

restoreOpenConduitSettled ==
    /\ kpc = "restore.OpenConduit"
    /\ \E ok \in BOOLEAN :
         KApply(IF ok
                THEN Suspended("restore.getAllDatabases", 0,
                               Append(kcalls,
                                      Call("getAllDatabasesFromStorage", 0)))
                ELSE Suspended("rejected", 0, kcalls))

restoreGetAllSettled ==
    /\ kpc = "restore.getAllDatabases"
    /\ \/ KApply(Suspended("rejected", 0, kcalls))
       \/ \E dbs \in StoredDbs :
            /\ kdbs' = dbs
            /\ KStep(restoreLoop(dbs, 1, kcalls), kcount)

restoreWriteDbSettled ==
    /\ kpc = "restore.writeDb"
    /\ UNCHANGED kdbs
    /\ \E ok \in BOOLEAN :
         IF ok THEN KStep(restoreLoop(kdbs, kindex + 1, kcalls), kcount + 1)
         ELSE KStep(restoreLoop(kdbs, kindex + 1,
                                Append(kcalls,
                                       Call("console.error", kdbs[kindex]))),
                    kcount)

ConduitNext ==
    \/ conduitExecute
    \/ openConduitSettled
    \/ readRawDbSettled
    \/ cleanUpDbSettled
    \/ databaseExistsSettled
    \/ readDatabaseSettled
    \/ syncDbSettled
    \/ writeDatabaseSettled
    \/ downloadExecute
    \/ downloadOpenConduitSettled
    \/ downloadExistsSettled
    \/ downloadReadRawDbSettled
    \/ downloadCleanUpDbSettled
    \/ restoreExecute
    \/ restoreOpenConduitSettled
    \/ restoreGetAllSettled
    \/ restoreWriteDbSettled

ConduitStart ==
    /\ UsbInit /\ NetInit /\ CodecIdle /\ DlpIdle /\ CfgIdle /\ StreamInit
    /\ ConduitInit /\ ScanIdle /\ StgIdle /\ PdbIdle

ConduitSpec == ConduitStart /\ [][ConduitNext]_vars


(***************************************************************************)
(* waitForDevice (part_000:359-377), one call on its own: the bus may hold *)
(* any devices, a second supported one among them, and stop() may set the  *)
(* flag at any moment.                                                     *)
(***************************************************************************)
\* Polls of one call.
MaxPolls == 3

\* What usb.getDeviceList() may return to the call.
ScanLists ==
    {list \in UNION {[1..n -> DeviceIds \cup USB_DEVICE_CONFIGS_BY_ID] :
                        n \in 0..(MaxDevices + 1)} :
        \A i, j \in 1..Len(list) : i # j => list[i] # list[j]}

ScanSet(p, list, found, polls) ==
    /\ scanPc' = p
    /\ scanList' = list
    /\ scanFound' = found
    /\ scanPolls' = polls
    /\ UNCHANGED scanStop
    /\ UNCHANGED nonScanVars

\* waitForDevice is called: its loop test and its first await.
scanCall ==
    /\ scanPc = "idle"
    /\ ScanSet(waitForDeviceEntry(scanStop), <<>>, 0, 0)

\* Where the scan of a bus list takes the call: it returns the device
\* found, or awaits the timer.
waitForDeviceAfterScan(found) == IF found # 0 THEN "open" ELSE "wfd_sleep"

\* waitForDevice resumed with the bus list.
scanPoll ==
    /\ scanPc = "wfd_list"
    /\ scanPolls < MaxPolls
    /\ \E list \in ScanLists :
         ScanSet(waitForDeviceAfterScan(waitForDeviceScan(list)), list,
                 waitForDeviceScan(list), scanPolls + 1)

\* waitForDevice resumed by the polling timer: its loop test.
scanWake ==
    /\ scanPc = "wfd_sleep"
    /\ ScanSet(waitForDeviceEntry(scanStop), scanList, 0, scanPolls)

\* stop() sets the flag.
scanSetStop ==
    /\ ~scanStop
    /\ scanStop' = TRUE
    /\ UNCHANGED <<scanPc, scanList, scanFound, scanPolls>>
    /\ UNCHANGED nonScanVars

ScanNext ==
    \/ scanCall
    \/ scanPoll
    \/ scanWake
    \/ scanSetStop

ScanStart ==
    /\ UsbInit /\ NetInit /\ CodecIdle /\ DlpIdle /\ CfgIdle /\ StreamInit
    /\ ConduitIdle /\ ScanIdle /\ StgIdle /\ PdbIdle

ScanSpec == ScanStart /\ [][ScanNext]_vars


(***************************************************************************)
(* NodeDatabaseStorageImplementation (part_002:12-198): the area of one    *)
(* user under baseDir.  A file is known by its directory ("base" for       *)
(* baseDir itself, "backup" and "install" for the user's two directories)  *)
(* and its name, and holds one database.                                   *)
(***************************************************************************)
StgNames == {1, 2}

\* The names of the database files, and of one file that is none.
FileNames ==
    {File(n, e) : n \in StgNames, e \in {"pdb", "prc"}} \cup {File(1, "txt")}

\* A database: the name and the resDB attribute of its header, and where
\* this copy of it comes from.
StgDbs == [name : StgNames, resDB : BOOLEAN, origin : {"device", "install"}]

StoredFile(dir, file, db) == [dir |-> dir, file |-> file, db |-> db]

\* fs.pathExists
pathExists(files, dir, file) ==
    \E f \in files : f.dir = dir /\ f.file = file

\* fs.readFile of a file that exists, parsed.
readFile(files, dir, file) ==
    (CHOOSE f \in files : f.dir = dir /\ f.file = file).db

\* The files without the one at dir/file.
unlink(files, dir, file) ==
    {f \in files : ~(f.dir = dir /\ f.file = file)}

\* fs.ensureFile and fs.writeFile(filePath, db.serialize())
writeFile(files, dir, file, db) ==
    unlink(files, dir, file) \cup {StoredFile(dir, file, db)}

getDbFullName(db) == File(db.name, IF db.resDB THEN "prc" ELSE "pdb")

\* The directory writeDatabaseToStorage writes to.
writeDir(basedir) == IF basedir THEN "base" ELSE "backup"

\* The directory readDatabaseFromStorage reads dbName from, or "throw".
readDatabaseDirInstallFirst(files, basedir, dbName) ==
    IF basedir THEN "base"
    ELSE IF pathExists(files, "install", dbName) THEN "install"
    ELSE IF pathExists(files, "backup", dbName) THEN "backup"
    ELSE "throw"
readDatabaseDir(files, basedir, dbName) ==
    IF basedir THEN "base"
    ELSE IF pathExists(files, "backup", dbName) THEN "backup"
    ELSE IF pathExists(files, "install", dbName) THEN "install"
    ELSE "throw"

Thrown == [throws |-> TRUE]

\* fs.readFile rejects when the file is not there; the class of the object
\* returned follows the resDB attribute of the header read.
readDatabaseFromStorage(files, basedir, dbName) ==
    LET dir == readDatabaseDir(files, basedir, dbName)
    IN  IF dir = "throw" \/ ~pathExists(files, dir, dbName) THEN Thrown
        ELSE LET db == readFile(files, dir, dbName)
             IN  [throws |-> FALSE,
                  class |-> IF db.resDB THEN "RawPrcDatabase"
                            ELSE "RawPdbDatabase",
                  db |-> db]

databaseExistsInStorage(files, dbName) == pathExists(files, "backup", dbName)

\* The order of Array.prototype.sort() on the names '<name>.<ext>'.
FileBefore(f, g) ==
    \/ f.name < g.name
    \/ f.name = g.name /\ \E i, j \in 1..3 :
         /\ i < j
         /\ f.ext = <<"pdb", "prc", "txt">>[i]
         /\ g.ext = <<"pdb", "prc", "txt">>[j]

RECURSIVE sort(_)
sort(names) ==
    IF names = {} THEN <<>>
    ELSE LET first == CHOOSE f \in names :
                          \A g \in names \ {f} : FileBefore(f, g)
         IN  <<first>> \o sort(names \ {first})

\* installFiles.filter(endsWith('.prc') || endsWith('.pdb')).sort()
sortedFilesUnfiltered(files) ==
    sort({f.file : f \in {g \in files : g.dir = "install"}})
sortedFiles(files) ==
    sort({f.file : f \in {g \in files : /\ g.dir = "install"
                                        /\ g.file.ext \in {"prc", "pdb"}}})

getDatabasesFromInstallList(files, basedir) ==
    LET filenames == sortedFiles(files)
        results == [k \in 1..Len(filenames) |->
                       readDatabaseFromStorage(files, basedir, filenames[k])]
    IN  IF \E k \in 1..Len(filenames) : results[k].throws THEN Thrown
        ELSE [throws |-> FALSE,
              databases |-> [k \in 1..Len(filenames) |-> results[k].db],
              filenames |-> filenames]

\* fs.move(installFilePath, backupFilePath, {overwrite: true})
move(files, filename, dbName) ==
    writeFile(unlink(files, "install", filename), "backup", dbName,
              readFile(files, "install", filename))

StgSet(files, last) ==
    /\ stgFiles' = files
    /\ stgLast' = last
    /\ UNCHANGED readWriteToBasedir
    /\ UNCHANGED nonStgVars

writeDatabaseToStorage ==
    \E name \in StgNames, resDB \in BOOLEAN :
      LET db == [name |-> name, resDB |-> resDB, origin |-> "device"]
      IN  StgSet(writeFile(stgFiles, writeDir(readWriteToBasedir),
                           getDbFullName(db), db),
                 [op |-> "writeDatabaseToStorage", db |-> db])

readDatabaseFromStorageCall ==
    \E dbName \in FileNames :
      StgSet(stgFiles,
             [op |-> "readDatabaseFromStorage", dbName |-> dbName,
              result |-> readDatabaseFromStorage(stgFiles, readWriteToBasedir,
                                                 dbName)])

databaseExistsInStorageCall ==
    \E dbName \in FileNames :
      StgSet(stgFiles,
             [op |-> "databaseExistsInStorage", dbName |-> dbName,
              result |-> databaseExistsInStorage(stgFiles, dbName)])

getDatabasesFromInstallListCall ==
    StgSet(stgFiles,
           [op |-> "getDatabasesFromInstallList",
            result |-> getDatabasesFromInstallList(stgFiles,
                                                   readWriteToBasedir)])

\* The caller passes a database of the install list and its file name; the
\* move rejects when the file is not in the install directory.
removeDatabaseFromInstallList ==
    \E name \in StgNames, resDB \in BOOLEAN :
      LET db == [name |-> name, resDB |-> resDB, origin |-> "install"]
          filename == getDbFullName(db)
          moved == pathExists(stgFiles, "install", filename)
      IN  StgSet(IF moved THEN move(stgFiles, filename, getDbFullName(db))
                 ELSE stgFiles,
                 [op |-> "removeDatabaseFromInstallList", db |-> db,
                  filename |-> filename, throws |-> ~moved])

\* The user puts a file into the install directory: a database under its
\* own name, or some other file.
installFileAdded ==
    \E f \in FileNames :
      /\ ~pathExists(stgFiles, "install", f)
      /\ StgSet(stgFiles \cup
                  {StoredFile("install", f,
                              [name |-> f.name, resDB |-> f.ext = "prc",
                               origin |-> "install"])},
                [op |-> "none"])

StgNext ==
    \/ writeDatabaseToStorage
    \/ readDatabaseFromStorageCall
    \/ databaseExistsInStorageCall
    \/ getDatabasesFromInstallListCall
    \/ removeDatabaseFromInstallList
    \/ installFileAdded

\* A storage object of either configuration over an empty baseDir.
StgInit ==
    /\ readWriteToBasedir \in BOOLEAN
    /\ stgFiles = {}
    /\ stgLast = [op |-> "none"]

StgStart ==
    /\ UsbInit /\ NetInit /\ CodecIdle /\ DlpIdle /\ CfgIdle /\ StreamInit
    /\ ConduitIdle /\ ScanIdle /\ StgInit /\ PdbIdle

StgSpec == StgStart /\ [][StgNext]_vars


(***************************************************************************)
(* Database (src/database.ts:8-146) over raw buffers.  A buffer is a       *)
(* sequence of cells and an offset counts cells from 0.  The header        *)
(* serializes to its two offsets and the record list to the number of      *)
(* records followed by the localChunkId of each entry; appInfo, sortInfo   *)
(* and the records are buffers of bytes.  appInfo and sortInfo are <<>>    *)
(* when null and <<b>> when they hold the buffer b.                        *)
(***************************************************************************)
MaxRecords == 2
MaxBlobLen == 1
MaxSerialize == 2

Blobs == UNION {[1..n -> {0, 1}] : n \in 0..MaxBlobLen}

OptBlobs == {<<>>} \cup {<<b>> : b \in Blobs}

RecordSeqs == UNION {[1..n -> Blobs] : n \in 0..MaxRecords}

\* DatabaseHdrType.serialize / parseFrom, the two offsets only.
headerSerialize(db) == <<db.appInfoId, db.sortInfoId>>

headerSerializedLength == Len(headerSerialize([appInfoId |-> 0,
                                               sortInfoId |-> 0]))

\* RecordListType.serialize / parseFrom.
recordListSerialize(ids) == <<Len(ids)>> \o ids

recordListParse(buffer) == [k \in 1..buffer[1] |-> buffer[1 + k]]

\* Buffer.slice(start, end)
bufferSlice(buffer, from, to) ==
    IF to > Len(buffer) THEN SubSeq(buffer, from + 1, Len(buffer))
    ELSE SubSeq(buffer, from + 1, to)

\* The serializedLength of appInfo or sortInfo, 0 when it is null.
optLength(opt) == IF opt = <<>> THEN 0 ELSE Len(opt[1])

optBytes(opt) == IF opt = <<>> THEN <<>> ELSE opt[1]

RECURSIVE concat(_)
concat(blobs) ==
    IF blobs = <<>> THEN <<>> ELSE Head(blobs) \o concat(Tail(blobs))

\* The localChunkId of each record when the first one starts at offset.
RECURSIVE chunkIds(_, _)
chunkIds(records, offset) ==
    IF records = <<>> THEN <<>>
    ELSE <<offset>> \o chunkIds(Tail(records), offset + Len(Head(records)))

\* serialize(): the object with its recomputed fields, and the buffer.
serialize(db) ==
    LET afterList == headerSerializedLength
                       + Len(recordListSerialize(db.records))
        afterAppInfo == afterList + optLength(db.appInfo)
        afterSortInfo == afterAppInfo + optLength(db.sortInfo)
        recomputed ==
            [db EXCEPT !.appInfoId = IF db.appInfo # <<>> THEN afterList
                                     ELSE 0,
                       !.sortInfoId = IF db.sortInfo # <<>> THEN afterAppInfo
                                      ELSE 0,
                       !.localChunkIds = chunkIds(db.records, afterSortInfo)]
    IN  [db |-> recomputed,
         buffer |-> headerSerialize(recomputed)
                      \o recordListSerialize(recomputed.localChunkIds)
                      \o optBytes(db.appInfo) \o optBytes(db.sortInfo)
                      \o concat(db.records)]

\* Where the records begin, or the buffer ends when there is none.
firstChunk(entries, buffer) ==
    IF Len(entries) > 0 THEN entries[1] ELSE Len(buffer)

\* const appInfoEnd = this.header.sortInfoId || (...)
appInfoEndIgnoringSortInfo(sortInfoId, entries, buffer) ==
    firstChunk(entries, buffer)
appInfoEnd(sortInfoId, entries, buffer) ==
    IF sortInfoId # 0 THEN sortInfoId ELSE firstChunk(entries, buffer)

\* parseFrom(buffer) on a new Database object.
parseFrom(buffer) ==
    LET appInfoId == buffer[1]
        sortInfoId == buffer[2]
        entries ==
            recordListParse(bufferSlice(buffer, headerSerializedLength,
                                        Len(buffer)))
        recordEnd(i) ==
            IF i < Len(entries) THEN entries[i + 1] ELSE Len(buffer)
    IN  [appInfoId |-> appInfoId,
         sortInfoId |-> sortInfoId,
         localChunkIds |-> entries,
         appInfo |-> IF appInfoId # 0
                     THEN <<bufferSlice(buffer, appInfoId,
                                        appInfoEnd(sortInfoId, entries,
                                                   buffer))>>
                     ELSE <<>>,
         sortInfo |-> IF sortInfoId # 0
                      THEN <<bufferSlice(buffer, sortInfoId,
                                         firstChunk(entries, buffer))>>
                      ELSE <<>>,
         records |-> [i \in 1..Len(entries) |->
                         bufferSlice(buffer, entries[i], recordEnd(i))]]

\* A Database object before it is serialized: its offsets are 0, as in a
\* new object, or left over from a file it was parsed from.
PdbInit ==
    /\ \E stale \in {0, 7} :
         pdb \in [appInfoId : {stale}, sortInfoId : {stale},
                  localChunkIds : {<<>>}, appInfo : OptBlobs,
                  sortInfo : OptBlobs, records : RecordSeqs]
    /\ pdbBuffers = <<>>
    /\ pdbParsed = <<>>

pdbSerialize ==
    /\ Len(pdbBuffers) < MaxSerialize
    /\ pdb' = serialize(pdb).db
    /\ pdbBuffers' = Append(pdbBuffers, serialize(pdb).buffer)
    /\ UNCHANGED pdbParsed
    /\ UNCHANGED nonPdbVars

\* Another Database object parses the last buffer.
pdbParseFrom ==
    /\ pdbBuffers # <<>>
    /\ pdbParsed = <<>>
    /\ pdbParsed' = <<parseFrom(pdbBuffers[Len(pdbBuffers)])>>
    /\ UNCHANGED <<pdb, pdbBuffers>>
    /\ UNCHANGED nonPdbVars

PdbNext ==
    \/ pdbSerialize
    \/ pdbParseFrom

PdbStart ==
    /\ UsbInit /\ NetInit /\ CodecIdle /\ DlpIdle /\ CfgIdle /\ StreamInit
    /\ ConduitIdle /\ ScanIdle /\ StgIdle /\ PdbInit

PdbSpec == PdbStart /\ [][PdbNext]_vars


(***************************************************************************)
(* The claims.                                                             *)
(***************************************************************************)
CloseDevicePcs == {"streamEnd", "release", "close"}

\* connection.end() has been called in the session of run() l.
EndCalled(p, t) ==
    p = "end" \/ Contains(t, "end") \/ Contains(t, "end:throw")

C2_NetSyncFailureStillEnds ==
    \A c \in Conns :
        Contains(ctrace[c], "sync:throw") => EndCalled(cpc[c], ctrace[c])

\* C3: at most one run() loop of a UsbSyncServer is active at any time.
C3_SingleRunLoop == Cardinality(ActiveLoops) <= 1

\* C4: whenever the loop goes on to waitForDeviceToDisconnect and openDevice
\* had returned a device, closeDevice has run for it.
C4_DeviceClosedOnEveryExit ==
    [][\A l \in Loops :
         (device[l] /\ pc[l] \notin WaitDisconnectPcs
            /\ pc'[l] \in WaitDisconnectPcs) => pc[l] = "close"]_vars

\* C5: when openDevice fails to open, claim or configure the device,
\* onConnection is not invoked; if the device was opened closeDevice runs,
\* and the loop goes on to wait for the disconnect and back to discovery.
C5_OpenFailureSkipsSession ==
    [][\A l \in Loops :
         /\ (trace'[l] # <<>> /\ trace'[l][1] \in OpenFailures)
              => /\ ~Contains(trace'[l], "connect")
                 /\ device'[l]
                 /\ stream'[l] = "null"
                 /\ pc'[l] \in {"release", "close"}
         /\ (pc[l] = "open" /\ pc'[l] # "open")
              => /\ pc'[l] \in {"handshake", "release", "close"}
                                 \cup WaitDisconnectPcs
                 /\ pc'[l] = "handshake"
                      => trace'[l] = <<"open:ok", "connect">>
                 /\ pc'[l] \in WaitDisconnectPcs => ~device'[l]
         /\ (pc[l] = "release" /\ pc'[l] # pc[l]) => pc'[l] = "close"
         /\ (pc[l] = "close" /\ pc'[l] # pc[l])
              => pc'[l] \in WaitDisconnectPcs
         /\ (pc[l] \in {"wdd_list", "wdd_sleep"} /\ pc'[l] # pc[l])
              => pc'[l] \in WaitDisconnectPcs
         /\ (pc[l] = "wdd_ret" /\ pc'[l] # pc[l])
              => IF shouldStop THEN pc'[l] \in {"done", "none"}
                               ELSE pc'[l] = "wfd_list"
       ]_vars

\* No connection configuration was found: the claimed interface has been
\* released and device.close() is under way, without any onConnection.
C5_Witness ==
    \E l \in Loops :
        /\ pc[l] = "close"
        /\ trace[l] = <<"open:noConnectionConfig", "release">>

\* C6: a rejection of connection.end() is caught by run(); the loop does
\* not end, goes on to wait for the disconnect and back to discovery.
C6_EndFailureNonFatal ==
    [][\A l \in Loops :
         /\ Contains(trace'[l], "end:throw") => pc'[l] = "catch"
         /\ (pc[l] = "end" /\ pc'[l] # pc[l])
              => pc'[l] \in {"streamEnd", "catch"}
         /\ (pc[l] = "catch" /\ pc'[l] # pc[l])
              => pc'[l] \in WaitDisconnectPcs
         /\ (pc[l] \in {"wdd_list", "wdd_sleep"} /\ pc'[l] # pc[l])
              => pc'[l] \in WaitDisconnectPcs
         /\ (pc[l] = "wdd_ret" /\ pc'[l] # pc[l])
              => IF shouldStop THEN pc'[l] \in {"done", "none"}
                               ELSE pc'[l] = "wfd_list"
       ]_vars

\* EndOfSync was rejected and run() is in its catch clause.
C6_Witness ==
    \E l \in Loops : pc[l] = "catch" /\ Contains(trace[l], "end:throw")

\* C7: after a session, no device is opened until a bus poll of
\* waitForDeviceToDisconnect has seen the session's device gone.
C7_NoOpenBeforeRemovalSeen ==
    [][\A l \in Loops :
         (pc[l] # "open" /\ pc'[l] = "open")
            => \A k \in Loops : ~pendingRemoval[k]]_vars

\* C8: once stop() has set the flag, a loop that is polling in waitForDevice
\* ends without opening a device.
C8_StopEndsPollWithoutOpening ==
    [][\A l \in Loops :
         (shouldStop /\ pc[l] \in {"wfd_list", "wfd_sleep"})
            => pc'[l] \in {"wfd_list", "wfd_sleep", "done", "none"}]_vars

\* C9: a stop() before any start(), during a previous stop() or after one
\* (with no start() since) returns at its guard: it changes neither
\* runPromise nor shouldStop and does not wait.
C9_StopIsNoOp ==
    (~everStarted \/ StopsSuspended # {} \/ stoppedSince)
       => stopCall(runPromise, shouldStop)
            = [runPromise |-> runPromise, shouldStop |-> shouldStop,
               awaits |-> FALSE]

\* A stop() is waiting for a loop that is in the middle of a session.
C9_Witness ==
    \E l \in Loops : stopWait[l] > 0 /\ pc[l] = "sync" /\ shouldStop

ClassOfLength(dataLength) ==
    IF dataLength[1] = 0 /\ dataLength[2] <= 255 THEN "tiny"
    ELSE IF dataLength[1] = 0 /\ dataLength[2] <= 65535 THEN "short"
    ELSE IF dataLength[1] <= 65535 /\ dataLength[2] <= 65535 THEN "long"
    ELSE "throw"

\* The first bytes of a response that the parser of command ID c accepts.
AcceptedResponseByte(c) == c + 128

\* C12: DlpResponse.parseFrom for command ID c, on a response whose
\* argument count, error field and arguments are well formed, succeeds when
\* the first byte is c | 0x80 and fails for every other first byte: for a
\* byte without the high bit and for a byte whose low 7 bits differ from c.
C12_ResponseCommandByte ==
    cout.op = "responseParse" =>
        LET b == cin.buffer[1]
            c == cin.commandId
        IN /\ (b = AcceptedResponseByte(c) /\ cin.buffer[2] = cin.numArgs)
                => cout.result.ok
           /\ b # AcceptedResponseByte(c) => ~cout.result.ok
           /\ b < 128 => cout.result.error = "invalidResponseCommandId"
           /\ (b >= 128 /\ b % 128 # c)
                => cout.result.error = "commandIdMismatch"

\* A first byte that equals the command ID but lacks the high bit is
\* refused.
C12_Witness ==
    /\ cout.op = "responseParse"
    /\ cin.commandId = 18
    /\ cin.buffer[1] = 18
    /\ ~cout.result.ok

\* C14: the size class chosen on serialization depends on the payload
\* length only: tiny for 0..255, short for 256..65535, long for
\* 65536..2^32-1, and serialization fails beyond.
C14_SizeClassByLength ==
    /\ cout.op = "argType"
         => cout.result = ClassOfLength(cin.dataLength)
    /\ cout.op = "argHeader"
         => /\ cout.result.ok <=> ClassOfLength(cin.dataLength) # "throw"
            /\ cout.result.ok
                 => cout.result.argType = ClassOfLength(cin.dataLength)
    /\ cout.op = "argSerialize"
         => /\ cout.result.ok
            /\ cout.result.argType = ClassOfLength(ToLength(Len(cin.data)))

\* A payload of 256 bytes is serialized as a short argument.
C14_Witness ==
    /\ cout.op = "argSerialize"
    /\ Len(cin.data) = 256
    /\ cout.result.ok
    /\ cout.result.argType = "short"

\* C15: the size class is in the top two bits of the first header byte:
\* serialization writes argId, argId | 0x80 or argId | 0x40 for tiny, short
\* and long; DlpArg.parseFrom takes the class from those bits and the
\* argument ID from the low six bits, and throws when the bits are 11.
C15_SizeClassBits ==
    /\ (cout.op = "argHeader" /\ cout.result.ok)
         => cout.result.buffer[1]
              = cin.argId + (CASE cout.result.argType = "tiny" -> 0
                               [] cout.result.argType = "short" -> 128
                               [] cout.result.argType = "long" -> 64)
    /\ cout.op = "argParse"
         => LET b == cin.buffer[1]
            IN IF b \div 64 = 3
               THEN /\ ~cout.result.ok
                    /\ cout.result.error = "argumentIdType"
               ELSE /\ cout.result.ok
                    /\ cout.result.argType
                         = (CASE b \div 64 = 0 -> "tiny"
                              [] b \div 64 = 2 -> "short"
                              [] b \div 64 = 1 -> "long")
                    /\ cout.result.argId = b % 64

\* An argument whose first byte has both top bits set is refused.
C15_Witness ==
    /\ cout.op = "argParse"
    /\ cin.buffer[1] = 224
    /\ ~cout.result.ok

\* The first byte a parser of command ID c accepts: c | 0x80 for a
\* response, c for a request.
CommandByteAccepted ==
    IF cin.op = "responseParse"
    THEN cin.buffer[1] = AcceptedResponseByte(cin.commandId)
    ELSE cin.buffer[1] = cin.commandId

\* C16, as claimed: DlpResponse.parseFrom and DlpRequest.parseFrom fail with
\* an argument count mismatch whenever the count byte differs from the
\* number of arguments the schema declares, and no argument is parsed.
C16_ArgCountMismatch ==
    (cout.op \in {"responseParse", "requestParse"}
       /\ cin.buffer[2] # cin.numArgs)
      => /\ ~cout.result.ok
         /\ cout.result.error = "argumentCountMismatch"
         /\ cout.result.parsed = 0

\* C16, amended: when the count byte differs from the number of declared
\* arguments, parseFrom fails and no argument is parsed; the failure is an
\* argument count mismatch if the command ID byte was accepted, and the
\* command ID failure otherwise.
C16_ArgCountMismatchAfterCommandId ==
    (cout.op \in {"responseParse", "requestParse"}
       /\ cin.buffer[2] # cin.numArgs)
      => /\ ~cout.result.ok
         /\ cout.result.parsed = 0
         /\ cout.result.error
              = IF CommandByteAccepted THEN "argumentCountMismatch"
                ELSE IF cin.op = "responseParse" /\ cin.buffer[1] < 128
                THEN "invalidResponseCommandId"
                ELSE "commandIdMismatch"

\* A response of the right command with one argument, parsed by a type
\* that declares two.
C16_Witness ==
    /\ cout.op = "responseParse"
    /\ CommandByteAccepted
    /\ cin.buffer[2] = 1
    /\ cin.numArgs = 2
    /\ cout.result.error = "argumentCountMismatch"

\* C17: parseFrom(serialize(r)) succeeds, restores errno and every
\* argument payload and returns the length of serialize(r); the bytes
\* 92 01 00 00 20 0A and 10 more parse for command 0x12 to errno 0 and the
\* 10-byte payload.
C17_ResponseRoundTrip ==
    /\ cout.op = "responseRoundTrip"
         => /\ cout.result.serialized.ok
            /\ cout.result.parsed.ok
            /\ cout.result.parsed.errno = cin.errno
            /\ cout.result.parsed.args = cin.args
            /\ cout.result.parsed.readOffset
                 = Len(cout.result.serialized.buffer)
    /\ (cout.op = "responseParse" /\ cin.commandId = 18
          /\ cin.buffer = ExampleResponse)
         => /\ cout.result.ok
            /\ cout.result.errno = 0
            /\ Len(cout.result.args) = 1
            /\ cout.result.args[1].value = Fill(10, 170)

\* A response with the largest error code and a short argument followed
\* by a tiny one has been serialized and parsed back.
C17_Witness ==
    /\ cout.op = "responseRoundTrip"
    /\ cin.errno = 65535
    /\ Len(cin.args) = 2
    /\ Len(cin.args[1].value) = 256
    /\ cout.result.parsed.ok

\* The message a call was resumed with answers that call's own request.
OwnResponse(k) ==
    /\ epc[k] \in {"parse", "returned", "thrown"}
    /\ written[rawResponse[k].seq].call = k

\* The error field of the message a call was resumed with.
rawErrno(k) == readUInt16BE(rawResponse[k].buffer, 2)

\* C11: requests over one transport are strictly sequential: a request is
\* not written while an earlier one has had no response, every call is
\* resumed with the message that answers its own request, and no message
\* resumes two calls.
C11_StrictlySequential ==
    /\ Len(written) - answered <= 1
    /\ \A k \in Calls :
          epc[k] \in {"parse", "returned", "thrown"} => OwnResponse(k)
    /\ \A j, k \in Calls :
          (j # k /\ epc[j] \in {"parse", "returned", "thrown"}
                 /\ epc[k] \in {"parse", "returned", "thrown"})
          => rawResponse[j].seq # rawResponse[k].seq

\* C13: execute, resumed with the answer to its own request, fails with a
\* DLP error carrying the code when the error field is non-zero, with or
\* without the arguments, and returns the parsed response only when the
\* error field is 0.
C13_ErrnoRejects ==
    \A k \in Calls :
        (OwnResponse(k) /\ epc[k] \in {"returned", "thrown"}) =>
            /\ rawErrno(k) # 0 =>
                  response[k] = [ok |-> FALSE, error |-> "dlpError",
                                 code |-> rawErrno(k)]
            /\ epc[k] = "returned" => rawErrno(k) = 0

\* Positions, in descriptor order, of the bulk endpoints of packet size 64
\* of a direction.
HotSyncPositions(es, d) ==
    {i \in 1..Len(es) : es[i].type = "bulk" /\ es[i].packetSize = 64
                          /\ es[i].direction = d}

\* The least of a non-empty set of positions.
FirstPosition(S) == CHOOSE i \in S : \A j \in S : i <= j

\* C18: getConnectionConfigFromUsbDeviceInfo returns the endpoint numbers
\* of the first IN and the first OUT endpoint, in descriptor order, among
\* the bulk endpoints of packet size 64 of interface 0, and null when
\* either direction has none.
C18_InferredEndpoints ==
    (inferred.called /\ usbDevice.configuration
                     /\ usbDevice.interfaces >= 1) =>
        IF HotSyncPositions(usbDevice.endpoints, "in") = {}
             \/ HotSyncPositions(usbDevice.endpoints, "out") = {}
        THEN ~inferred.config.found
        ELSE /\ inferred.config.found
             /\ inferred.config.inEndpoint =
                  usbDevice.endpoints[FirstPosition(HotSyncPositions(
                      usbDevice.endpoints, "in"))].endpointNumber
             /\ inferred.config.outEndpoint =
                  usbDevice.endpoints[FirstPosition(HotSyncPositions(
                      usbDevice.endpoints, "out"))].endpointNumber

\* A device whose first IN and first OUT endpoint are not usable, with a
\* usable one of each direction after them.
C18_Witness ==
    /\ ipc = "applied"
    /\ Len(usbDevice.endpoints) = 3
    /\ usbDevice.endpoints[1] = Endpoint(1, "in", "bulk", 8)
    /\ usbDevice.endpoints[2] = Endpoint(2, "in", "bulk", 64)
    /\ usbDevice.endpoints[3] = Endpoint(1, "out", "bulk", 64)
    /\ inferred.config = Config(2, 1)

\* C19: in openDevice the inference from the descriptors is made if and
\* only if the init function returned no configuration (null, as NONE
\* always does, or it threw); a configuration the init function returned
\* is the one the stream is made with; a stream is made only when one of
\* the two gave a configuration.
C19_InferenceIffNoDialectConfig ==
    ipc = "returned" =>
        /\ inferred.called <=> initResult.kind \in {"null", "threw"}
        /\ initResult.kind = "config" =>
              (openResult = "stream" /\ connectionConfig = initResult.config)
        /\ initType = "NONE" =>
              (initResult.kind = "null" /\ controlRequests = <<>>)
        /\ openResult = "stream" <=>
              (initResult.kind = "config" \/ inferred.config.found)
        /\ (openResult = "stream" /\ inferred.called) =>
              connectionConfig = inferred.config

\* The init function found a configuration with GET_CONNECTION_INFO and
\* threw at GET_NUM_BYTES_AVAILABLE; the descriptors gave the stream's.
C19_Witness ==
    /\ ipc = "returned"
    /\ initType = "GENERIC"
    /\ initResult.kind = "threw"
    /\ initConfig.found
    /\ inferred.called
    /\ openResult = "stream"

\* The ports of type 'cnys' among those in use of the last response.
ListedHotSyncPorts ==
    IF lastResponse.request = "GET_EXT_CONNECTION_INFO"
    THEN {i \in 1..lastResponse.numPorts :
             lastResponse.ports[i].type = HOT_SYNC_PORT_TYPE}
    ELSE {}

FirstHotSyncPort == lastResponse.ports[FirstPosition(ListedHotSyncPorts)]

\* C20: for a GET_EXT_CONNECTION_INFO response that lists a port of type
\* 'cnys', the configuration is in = out = its portNumber when
\* hasDifferentEndpoints is 0, and its endpoints.inEndpoint and
\* endpoints.outEndpoint otherwise; no GET_CONNECTION_INFO or
\* GET_NUM_BYTES_AVAILABLE request is issued.
C20_ExtConnectionInfoConfig ==
    ListedHotSyncPorts # {} =>
        /\ ipc = "returned"
        /\ initResult.kind = "config"
        /\ initResult.config =
              IF lastResponse.hasDifferentEndpoints = 0
              THEN Config(FirstHotSyncPort.portNumber,
                          FirstHotSyncPort.portNumber)
              ELSE Config(FirstHotSyncPort.endpoints.inEndpoint,
                          FirstHotSyncPort.endpoints.outEndpoint)
        /\ connectionConfig = initResult.config
        /\ \A i \in 1..Len(controlRequests) :
              controlRequests[i].request = "GET_EXT_CONNECTION_INFO"

\* The second port is the HotSync port and the flag is 2.
C20_Witness ==
    /\ ListedHotSyncPorts = {2}
    /\ lastResponse.hasDifferentEndpoints = 2
    /\ connectionConfig = Config(4, 6)
    /\ openResult = "stream"

\* The ports of function type HOT_SYNC among those in use of the last
\* response.
ListedHotSyncFunctionPorts ==
    IF lastResponse.request = "GET_CONNECTION_INFO"
    THEN {i \in 1..lastResponse.numPorts :
             lastResponse.ports[i].functionType = "HOT_SYNC"}
    ELSE {}

\* Control transfers of a request are added to the log by this step.
Issues(req) ==
    /\ Len(controlRequests') > Len(controlRequests)
    /\ controlRequests'[Len(controlRequests) + 1].request = req

Issued(req) ==
    \E i \in 1..Len(controlRequests) : controlRequests[i].request = req

\* C21: in the GENERIC routine GET_CONNECTION_INFO is issued only after
\* GET_EXT_CONNECTION_INFO failed or listed no 'cnys' port;
\* GET_NUM_BYTES_AVAILABLE is issued only after GET_CONNECTION_INFO listed
\* a HOT_SYNC port, by one call, made before the routine returns (hence
\* before any stream exists); the routine returns null when neither
\* request identifies a HotSync port.
C21_GenericRequestOrder ==
    [][initType = "GENERIC" =>
         /\ Issues("GET_CONNECTION_INFO") =>
               /\ ipc = "GET_CONNECTION_INFO"
               /\ lastResponse.request \in {"none", "GET_EXT_CONNECTION_INFO"}
               /\ ListedHotSyncPorts = {}
               /\ ~Issued("GET_CONNECTION_INFO")
               /\ ~Issued("GET_NUM_BYTES_AVAILABLE")
         /\ Issues("GET_NUM_BYTES_AVAILABLE") =>
               /\ ipc = "GET_NUM_BYTES_AVAILABLE"
               /\ ListedHotSyncFunctionPorts # {}
               /\ ~Issued("GET_NUM_BYTES_AVAILABLE")
               /\ openResult = "none"
               /\ ipc' = "returned"
         /\ Issues("GET_EXT_CONNECTION_INFO") =>
               /\ controlRequests = <<>>
               /\ \A i \in 1..Len(controlRequests') :
                     controlRequests'[i].request = "GET_EXT_CONNECTION_INFO"
         /\ (ipc = "GET_CONNECTION_INFO" /\ ipc' # ipc) =>
               IF ListedHotSyncFunctionPorts' = {}
               THEN /\ ipc' = "returned"
                    /\ initResult'.kind = "null"
                    /\ ~Issued("GET_NUM_BYTES_AVAILABLE")'
               ELSE ipc' = "GET_NUM_BYTES_AVAILABLE"
    ]_vars

\* All three requests were issued, in this order, and the routine returned
\* the port GET_CONNECTION_INFO listed.
C21_Witness ==
    /\ initType = "GENERIC"
    /\ ipc = "returned"
    /\ initResult.kind = "config"
    /\ Issued("GET_EXT_CONNECTION_INFO")
    /\ Issued("GET_CONNECTION_INFO")
    /\ Issued("GET_NUM_BYTES_AVAILABLE")

\* C22: when GET_CONNECTION_INFO lists a HOT_SYNC port with port number p,
\* the stream of openDevice is made with in = out = p, whatever becomes of
\* the GET_NUM_BYTES_AVAILABLE request that follows.
C22_ConnectionInfoConfigUsed ==
    (initType = "GENERIC" /\ ipc = "returned" /\ initConfig.found) =>
        /\ openResult = "stream"
        /\ connectionConfig = initConfig

\* The OUT endpoint numbers of the device, and where in the descriptors
\* each is listed first.
OutNumbers ==
    {usbDevice.endpoints[i].endpointNumber :
        i \in {j \in 1..Len(usbDevice.endpoints) :
                  usbDevice.endpoints[j].direction = "out"}}

FirstOutPosition(n) ==
    FirstPosition({i \in 1..Len(usbDevice.endpoints) :
                      /\ usbDevice.endpoints[i].direction = "out"
                      /\ usbDevice.endpoints[i].endpointNumber = n})

VendorRequests ==
    {"GET_EXT_CONNECTION_INFO", "GET_CONNECTION_INFO",
     "GET_NUM_BYTES_AVAILABLE"}

\* The control transfers this step adds to the log.
NewRequests ==
    SubSeq(controlRequests', Len(controlRequests) + 1, Len(controlRequests'))

\* C23: a call of sendUsbControlRequestToFirstSuccessfulEndpoint sends the
\* request to the distinct OUT endpoint numbers of interface 0, one at a
\* time in descriptor order; it returns the response of the first endpoint
\* whose request succeeds and contacts none after it; it fails if and only
\* if there is no OUT endpoint or the request failed on every one.
C23_FirstSuccessfulEndpoint ==
    [][(ipc \in VendorRequests /\ ipc' # ipc) =>
         /\ \A i \in 1..Len(NewRequests) :
               /\ NewRequests[i].request = ipc
               /\ NewRequests[i].recipient = "endpoint"
               /\ NewRequests[i].index \in OutNumbers
               /\ i < Len(NewRequests) => NewRequests[i].result # "ok"
               /\ \A n \in OutNumbers :
                     FirstOutPosition(n) < FirstOutPosition(NewRequests[i].index)
                       => \E j \in 1..(i - 1) : NewRequests[j].index = n
         /\ \A i, j \in 1..Len(NewRequests) :
               i < j => FirstOutPosition(NewRequests[i].index)
                          < FirstOutPosition(NewRequests[j].index)
         /\ lastResponse'.request = ipc <=>
               /\ NewRequests # <<>>
               /\ NewRequests[Len(NewRequests)].result = "ok"
         /\ lastResponse'.request # ipc <=>
               \/ OutNumbers = {}
               \/ /\ {NewRequests[i].index : i \in 1..Len(NewRequests)}
                       = OutNumbers
                  /\ \A i \in 1..Len(NewRequests) :
                        NewRequests[i].result # "ok"
    ]_vars

\* The endpoint listed first gave no data, the second answered; the
\* device lists endpoint 2 before endpoint 1.
C23_Witness ==
    /\ Len(controlRequests) = 2
    /\ controlRequests[1].request = "GET_EXT_CONNECTION_INFO"
    /\ controlRequests[1].index = 2
    /\ controlRequests[1].result = "noData"
    /\ controlRequests[2].index = 1
    /\ controlRequests[2].result = "ok"
    /\ lastResponse.request = "GET_EXT_CONNECTION_INFO"

\* C24: the EARLY_SONY_CLIE routine sends GET_CONFIGURATION and then
\* GET_INTERFACE as standard control-in requests to the device, never
\* returns a configuration, and the endpoints always come from the
\* descriptors; when the first request fails the second is not sent and
\* the inference is still made.
C24_SonyRequestsThenInference ==
    initType = "EARLY_SONY_CLIE" =>
        /\ Len(controlRequests) <= 2
        /\ \A i \in 1..Len(controlRequests) :
              /\ controlRequests[i].request =
                    <<"GET_CONFIGURATION", "GET_INTERFACE">>[i]
              /\ controlRequests[i].requestType = "standard"
              /\ controlRequests[i].recipient = "device"
        /\ Len(controlRequests) = 2 => controlRequests[1].result = "ok"
        /\ ipc = "returned" =>
              /\ controlRequests # <<>>
              /\ controlRequests[1].result = "ok" => Len(controlRequests) = 2
              /\ initResult.kind \in {"null", "threw"}
              /\ initResult.kind = "null" <=>
                    (Len(controlRequests) = 2 /\ controlRequests[2].result = "ok")
              /\ inferred.called
              /\ connectionConfig = inferred.config
              /\ openResult = "stream" <=> inferred.config.found

\* The first request stalled: one request in all, and a stream from the
\* descriptors' endpoints.
C24_Witness ==
    /\ initType = "EARLY_SONY_CLIE"
    /\ ipc = "returned"
    /\ Len(controlRequests) = 1
    /\ controlRequests[1].result = "stall"
    /\ inferred.called
    /\ openResult = "stream"

\* C25: a transferIn that throws once _final has set shouldClose is
\* swallowed: the stream is not destroyed and no 'error' is emitted; one
\* that throws, or ends with a status other than 'ok', while shouldClose
\* is false destroys the stream with an error.
C25_ReadFailureAtTeardown ==
    [][(rpc = "transferIn" /\ rpc' = "idle") =>
         /\ (lastTransferIn' = "throw" /\ shouldClose) =>
               /\ destroyed' = destroyed
               /\ streamEvents' = streamEvents
         /\ (lastTransferIn' \in {"throw", "stall", "babble"}
                /\ ~shouldClose) =>
               /\ destroyed' # "no"
               /\ destroyed = "no" =>
                     /\ destroyed' = IF lastTransferIn' = "throw"
                                     THEN "readError" ELSE "readStatus"
                     /\ streamEvents' = Append(streamEvents, "error")
         /\ shouldClose => (ending /\ "finish" \in SeqToSet(streamEvents))
    ]_vars

\* A read threw after the stream had finished; the stream stands.
C25_Witness ==
    /\ shouldClose
    /\ lastTransferIn = "throw"
    /\ rpc = "idle"
    /\ destroyed = "no"
    /\ streamEvents = <<"finish">>

\* The step of closeDevice an event of a session's trace belongs to: 1 the
\* end of the stream, 2 releaseInterface, 3 device.close(); 0 for others.
CloseStep(e) ==
    IF e = "stream.end" THEN 1
    ELSE IF e \in {"release", "release:throw"} THEN 2
    ELSE IF e \in {"close", "close:throw"} THEN 3
    ELSE 0

\* C26: closeDevice ends the stream (if any) and waits for it, releases
\* interface 0 only if it is claimed, then closes the device, in this
\* order; a failure of releaseInterface or of close() is swallowed: the
\* next step follows and closeDevice returns.
C26_CloseDeviceOrder ==
    [][\A l \in Loops :
         /\ (pc[l] = "streamEnd" /\ pc'[l] # pc[l]) =>
               /\ pc'[l] = IF claimed[l] THEN "release" ELSE "close"
               /\ trace'[l] = Append(trace[l], "stream.end")
         /\ (pc[l] = "release" /\ pc'[l] # pc[l]) =>
               /\ claimed[l]
               /\ pc'[l] = "close"
               /\ trace'[l] \in {Append(trace[l], "release"),
                                  Append(trace[l], "release:throw")}
         /\ (pc[l] = "close" /\ pc'[l] # pc[l]) =>
               pc'[l] \in WaitDisconnectPcs
         /\ (pc[l] \notin CloseDevicePcs /\ pc'[l] \in CloseDevicePcs) =>
               /\ device'[l]
               /\ pc'[l] = IF stream'[l] # "null" THEN "streamEnd"
                           ELSE IF claimed'[l] THEN "release" ELSE "close"
         /\ \A i, j \in 1..Len(trace'[l]) :
               (i < j /\ CloseStep(trace'[l][i]) > 0) =>
                   CloseStep(trace'[l][i]) < CloseStep(trace'[l][j])
    ]_vars

\* A closeDevice that ended the stream, failed to release the interface and
\* is about to close the device.
C26_Witness ==
    \E l \in Loops :
        /\ pc[l] = "close"
        /\ Len(trace[l]) >= 2
        /\ SubSeq(trace[l], Len(trace[l]) - 1, Len(trace[l]))
             = <<"stream.end", "release:throw">>

(***************************************************************************)
(* Sessions of both servers                                                *)
(***************************************************************************)
\* The UsbSyncServer was never started and no start() is under way.
UsbAtRest ==
    /\ ~everStarted
    /\ starting = 0

\* The NetworkSyncServer was never started.
NetAtRest == server = "null"

\* A UsbSyncServer and a NetworkSyncServer: each runs its own onConnection,
\* and both use SyncConnection.start and end.  The two objects share no
\* field, so one works while the other is at rest.
SessionNext ==
    \/ NetAtRest /\ UsbNext
    \/ UsbAtRest /\ NetNext

SessionSpec == Init /\ [][SessionNext]_vars

SessionSteps == <<"connect", "handshake", "sysinfo", "userinfo", "sync",
                  "end", "disconnect">>

\* The position in SessionSteps of the step an event reports; 0 for others.
\* A step that failed reports its name followed by ":throw".
StepOf(e) ==
    CASE e = "connect" -> 1
      [] e \in {"handshake", "handshake:throw"} -> 2
      [] e \in {"sysinfo", "sysinfo:throw"} -> 3
      [] e \in {"userinfo", "userinfo:throw"} -> 4
      [] e \in {"sync", "sync:throw"} -> 5
      [] e \in {"end", "end:throw"} -> 6
      [] e = "disconnect" -> 7
      [] OTHER -> 0

\* Step k of a session with trace t, suspended at p, has begun.
Begun(t, p, k) ==
    \/ p = SessionSteps[k]
    \/ \E i \in 1..Len(t) : StepOf(t[i]) = k

\* One session: its steps appear in the order of SessionSteps, each at most
\* once; a step begins only after the one before it completed, and the
\* steps up to the sync function only after it completed without failure.
SessionInOrder(t, p) ==
    /\ \A i, j \in 1..Len(t) :
          (i < j /\ StepOf(t[i]) > 0 /\ StepOf(t[j]) > 0) =>
              StepOf(t[i]) < StepOf(t[j])
    /\ \A k \in 2..Len(SessionSteps) :
          Begun(t, p, k) =>
              \/ Contains(t, SessionSteps[k - 1])
              \/ k = 6 /\ Contains(t, "sync:throw")
    /\ \A e \in {"handshake:throw", "sysinfo:throw", "userinfo:throw"} :
          Contains(t, e) => ~Begun(t, p, 5)

\* C27: within one session of either server the steps occur in the order
\* 'connect', handshake, ReadSysInfo, ReadUserInfo, sync function,
\* EndOfSync, 'disconnect'; the sync function is never invoked when the
\* handshake or one of the two initial DLP calls failed, and ReadUserInfo
\* is not sent before ReadSysInfo was answered.
C27_SessionOrder ==
    /\ \A l \in Loops : SessionInOrder(trace[l], pc[l])
    /\ \A c \in Conns : SessionInOrder(ctrace[c], cpc[c])

\* A session of the UsbSyncServer that went through all seven steps.
C27_Witness ==
    \E l \in Loops :
        \A k \in 1..Len(SessionSteps) : Contains(trace[l], SessionSteps[k])

\* C28: waitForDevice returns a device only if its id is a key of the
\* built-in device table, and then the first such device of the bus list;
\* while the shutdown flag is clear and the list holds no supported device
\* it keeps polling; it returns null only when the flag is set.
C28_WaitForDevice ==
    [][/\ (scanPc = "wfd_list" /\ scanPc' # scanPc) =>
            \/ /\ scanPc' = "open"
               /\ scanFound' \in USB_DEVICE_CONFIGS_BY_ID
               /\ \E i \in 1..Len(scanList') :
                     /\ scanList'[i] = scanFound'
                     /\ \A j \in 1..(i - 1) :
                           scanList'[j] \notin USB_DEVICE_CONFIGS_BY_ID
            \/ /\ scanPc' = "wfd_sleep"
               /\ scanFound' = 0
               /\ \A i \in 1..Len(scanList') :
                     scanList'[i] \notin USB_DEVICE_CONFIGS_BY_ID
       /\ (scanPc = "wfd_sleep" /\ scanPc' # scanPc) =>
            scanPc' = IF scanStop THEN "done" ELSE "wfd_list"
       /\ (scanPc # "done" /\ scanPc' = "done") => scanStop
    ]_vars

\* waitForDevice returned the first of two supported devices, which an
\* unsupported device precedes on the bus list.
C28_Witness ==
    /\ scanPc = "open"
    /\ scanList = <<2, 9, 1>>
    /\ scanFound = 9
    /\ scanPolls > 1

\* The calls of cs that read a database from the device or write one to
\* storage.
Transfers(cs) ==
    LET isTransfer(c) == c.op \in {"readRawDb", "writeDatabase"}
    IN  SelectSeq(cs, isTransfer)

\* For every database of the list, in order: read it, then write it.
Downloads(list) ==
    [k \in 1..(2 * Len(list)) |->
        Call(IF k % 2 = 1 THEN "readRawDb" ELSE "writeDatabase",
             list[(k + 1) \div 2].name)]

IsPrefix(s, t) == Len(s) <= Len(t) /\ s = SubSeq(t, 1, Len(s))

\* C29: with sync type FIRST_SYNC execute issues OpenConduit first, then
\* reads the databases of dbList from the device in list order and hands
\* each one to storage before it reads the next; none is passed over, and
\* when execute resolves every database of the list was read and written.
C29_FirstSyncDownloadsAll ==
    (conduitData.syncType = "FIRST_SYNC" /\ kcalls # <<>>) =>
        /\ kcalls[1] = Call("OpenConduit", 0)
        /\ \A i \in 2..Len(kcalls) :
              kcalls[i].op \in {"readRawDb", "cleanUpDb", "writeDatabase"}
        /\ IsPrefix(Transfers(kcalls), Downloads(conduitData.dbList))
        /\ kpc = "resolved" =>
              Transfers(kcalls) = Downloads(conduitData.dbList)

\* A first sync that resolved after two databases, one a resource database
\* and one without the backup flag, none of them in storage before.
C29_Witness ==
    /\ conduitData.syncType = "FIRST_SYNC"
    /\ kpc = "resolved"
    /\ Len(conduitData.dbList) = 2
    /\ conduitData.dbList[1].resDB
    /\ ~conduitData.dbList[2].backup
    /\ desktop = {}
    /\ Len(kcalls) >= 5

\* The server as its constructor leaves it, with no run loop alive.
ServerStopped ==
    /\ runPromise = 0
    /\ shouldStop = FALSE
    /\ \A l \in Loops : pc[l] \in {"none", "done"}

\* C30, as claimed: whenever a stop() resolves the run loop has terminated
\* and the server is back in its initial state (runPromise null,
\* shouldStop false), so that a following start() passes its guard; also
\* for a second stop() issued while the first one waits.  A stop() resolves
\* at once in every state where its guard returns, and otherwise in the
\* state stopResume leaves.
C30_StopResolvesStopped ==
    /\ ~stopCall(runPromise, shouldStop).awaits =>
          (ServerStopped /\ startGuard(runPromise))
    /\ stoppedSince => ServerStopped

\* C31: start() on a server that is already started throws and changes
\* nothing.  While runPromise is set no start() gets past the guard of the
\* UsbSyncServer: none suspends in usb.requestDevice, and runPromise is
\* assigned a new loop only by a start() that was suspended there.  While
\* the NetworkSyncServer has a net.Server, no start() makes another one.
C31_StartOnStartedServer ==
    [][/\ runPromise # 0 =>
            /\ starting' <= starting
            /\ (runPromise' \notin {0, runPromise}) => starting' < starting
       /\ server # "null" => (server' = "listening" => server = "listening")
       /\ (~startGuard(runPromise) /\ starting = 0) =>
            /\ runPromise' \in {0, runPromise}
            /\ \A l \in Loops : pc[l] = "none" => pc'[l] = "none"
    ]_vars

\* The UsbSyncServer is started, no start() is suspended and a run() slot is
\* free: a start() made now is stopped by the guard alone.
C31_Witness ==
    /\ ~startGuard(runPromise)
    /\ starting = 0
    /\ FreeLoops # {}
    /\ \E l \in Loops : pc[l] \in {"wfd_list", "sync"}

\* onConnection of run() l has settled: run() is in its catch clause or in
\* closeDevice.
UsbSessionOver(l) == pc[l] \in {"catch"} \cup CloseDevicePcs

\* onConnection for socket c has settled.
NetSessionOver(c) == cpc[c] \in {"returned", "rejected"}

\* C32, as claimed: every 'connect' event is followed by exactly one
\* 'disconnect' event for the same connection, also when the handshake, an
\* initial DLP call, the sync function or EndOfSync fails: once
\* onConnection has settled, a session that emitted 'connect' has emitted
\* 'disconnect' once.
C32_ConnectThenDisconnect ==
    /\ \A l \in Loops :
          (UsbSessionOver(l) /\ Contains(trace[l], "connect")) =>
              Cardinality(Pos(trace[l], "disconnect")) = 1
    /\ \A c \in Conns :
          (NetSessionOver(c) /\ Contains(ctrace[c], "connect")) =>
              Cardinality(Pos(ctrace[c], "disconnect")) = 1

\* The configurations the entry at (1-based) position i of response r
\* stands for.
ConfigsOfEntry(r, i) ==
    IF r.request = "GET_EXT_CONNECTION_INFO"
    THEN {Config(r.ports[i].portNumber, r.ports[i].portNumber),
          Config(r.ports[i].endpoints.inEndpoint,
                 r.ports[i].endpoints.outEndpoint)}
    ELSE {Config(r.ports[i].portNumber, r.ports[i].portNumber)}

\* The positions of r.ports that numPorts declares in use.
InUse(r) == {i \in 1..Len(r.ports) : i <= r.numPorts}

\* C33: only the first numPorts entries of a GET_EXT_CONNECTION_INFO or
\* GET_CONNECTION_INFO response are searched for the HotSync port: the
\* configuration a response resolves comes from an entry in use and from no
\* entry behind them, and with numPorts = 0 the response resolves none.
C33_OnlyPortsInUse ==
    [][/\ (ipc = "GET_EXT_CONNECTION_INFO" /\ lastResponse' # lastResponse) =>
            IF \E i \in InUse(lastResponse') :
                   lastResponse'.ports[i].type = HOT_SYNC_PORT_TYPE
            THEN /\ initResult'.kind = "config"
                 /\ \E i \in InUse(lastResponse') :
                       /\ lastResponse'.ports[i].type = HOT_SYNC_PORT_TYPE
                       /\ initResult'.config \in ConfigsOfEntry(lastResponse', i)
                 /\ \A j \in (1..Len(lastResponse'.ports)) \ InUse(lastResponse') :
                       initResult'.config \notin ConfigsOfEntry(lastResponse', j)
            ELSE /\ ipc' = "GET_CONNECTION_INFO"
                 /\ initResult' = initResult
       /\ (ipc = "GET_CONNECTION_INFO" /\ lastResponse' # lastResponse) =>
            IF \E i \in InUse(lastResponse') :
                   lastResponse'.ports[i].functionType = "HOT_SYNC"
            THEN /\ ipc' = "GET_NUM_BYTES_AVAILABLE"
                 /\ \E i \in InUse(lastResponse') :
                       /\ lastResponse'.ports[i].functionType = "HOT_SYNC"
                       /\ initConfig' \in ConfigsOfEntry(lastResponse', i)
                 /\ \A j \in (1..Len(lastResponse'.ports)) \ InUse(lastResponse') :
                       initConfig' \notin ConfigsOfEntry(lastResponse', j)
            ELSE /\ initResult'.kind = "null"
                 /\ initConfig' = initConfig
    ]_vars

\* A GET_CONNECTION_INFO response with numPorts = 1 whose second entry is
\* the only HOT_SYNC one resolved nothing, after a GET_EXT_CONNECTION_INFO
\* response that did not either.
C33_Witness ==
    /\ lastResponse.request = "GET_CONNECTION_INFO"
    /\ lastResponse.numPorts = 1
    /\ lastResponse.ports[1].functionType # "HOT_SYNC"
    /\ lastResponse.ports[2].functionType = "HOT_SYNC"
    /\ initResult.kind = "null"
    /\ ~initConfig.found

\* The databases of the list that SLOW_SYNC and FAST_SYNC are to sync: not a
\* resource database, backup flag set, '<name>.pdb' in storage.
Eligible(list, stored) ==
    SelectSeq(list, LAMBDA d : /\ ~d.resDB
                               /\ d.backup
                               /\ File(d.name, "pdb") \in stored)

\* The calls of cs to fastSyncDb or slowSyncDb.
SyncCalls(cs) ==
    SelectSeq(cs, LAMBDA c : c.op \in {"fastSyncDb", "slowSyncDb"})

\* C34: with FAST_SYNC or SLOW_SYNC a database of dbList is synced only if
\* it is not a resource database, has the backup flag and its .pdb is in
\* storage, in list order, and when execute resolves every such database
\* was; fastSyncDb is used for FAST_SYNC and slowSyncDb for SLOW_SYNC; the
\* desktop copy is written right after that database's sync succeeded and
\* not after a failed one; a failed sync or write back is logged and the
\* loop goes on.
C34_SyncsEligibleDatabases ==
    [][conduitData.syncType \in {"SLOW_SYNC", "FAST_SYNC"} =>
         /\ \A i \in 1..Len(SyncCalls(kcalls')) :
               /\ i <= Len(Eligible(conduitData.dbList, desktop))
               /\ SyncCalls(kcalls')[i] =
                     Call(IF conduitData.syncType = "FAST_SYNC"
                          THEN "fastSyncDb" ELSE "slowSyncDb",
                          Eligible(conduitData.dbList, desktop)[i].name)
         /\ kpc' = "resolved" =>
               Len(SyncCalls(kcalls')) =
                   Len(Eligible(conduitData.dbList, desktop))
         /\ \A i \in 1..Len(kcalls') :
               kcalls'[i].op = "writeDatabase" =>
                   /\ i > 1
                   /\ kcalls'[i - 1] \in SeqToSet(SyncCalls(kcalls'))
                   /\ kcalls'[i - 1].name = kcalls'[i].name
         /\ kpc \in {"syncDb", "writeDatabase"} =>
               /\ kpc' # "rejected"
               /\ (Len(kcalls') > Len(kcalls)
                    /\ kcalls'[Len(kcalls) + 1].op = "console.error") =>
                     \A i \in (Len(kcalls) + 1)..Len(kcalls') :
                         kcalls'[i].op # "writeDatabase"
    ]_vars

\* A fast sync of two eligible databases that resolved: the sync of the
\* first failed, the second was synced and written back.
C34_Witness ==
    /\ conduitData.syncType = "FAST_SYNC"
    /\ kpc = "resolved"
    /\ Len(Eligible(conduitData.dbList, desktop)) = 2
    /\ \E i \in 1..Len(kcalls) :
          /\ kcalls[i].op = "console.error"
          /\ kcalls[i].name = conduitData.dbList[1].name
    /\ kcalls[Len(kcalls)] = Call("writeDatabase", conduitData.dbList[2].name)

(***************************************************************************)
(* C35: what DownloadNewResourcesConduit.execute reads from the device.    *)
(***************************************************************************)
\* The databases of list whose file is not in stored, in list order.
Missing(list, stored) ==
    SelectSeq(list, LAMBDA d : File(d.name, IF d.resDB THEN "prc" ELSE "pdb")
                                   \notin stored)

\* The names cs calls readRawDb with, in call order.
ReadNames(cs) ==
    LET reads == SelectSeq(cs, LAMBDA c : c.op = "readRawDb")
    IN  [k \in 1..Len(reads) |-> reads[k].name]

NamesOf(list) == [k \in 1..Len(list) |-> list[k].name]

WriteDbCalls(cs) == SelectSeq(cs, LAMBDA c : c.op = "writeDb")

\* The number of calls of cs to console.error.
Failures(cs) == Len(SelectSeq(cs, LAMBDA c : c.op = "console.error"))

\* C36: RestoreResourcesConduit.execute issues OpenConduit before anything
\* else; it calls writeDb, with overwrite set, once for every database
\* storage returned, in the order returned; a failed writeDb is caught:
\* execute goes on with the next database and is not rejected; installCount
\* is the number of writeDb calls that succeeded.
C36_RestoresEveryDatabase ==
    [][conduit = "RestoreResources" =>
         /\ kcalls' # <<>> => kcalls'[1] = Call("OpenConduit", 0)
         /\ kpc' \in {"restore.writeDb", "resolved"} =>
              /\ IsPrefix(WriteDbCalls(kcalls'),
                          [k \in 1..Len(kdbs') |->
                              [op |-> "writeDb", name |-> kdbs'[k],
                               overwrite |-> TRUE]])
              /\ kpc' = "resolved" => Len(WriteDbCalls(kcalls')) = Len(kdbs')
              /\ kcount' = Len(WriteDbCalls(kcalls')) - Failures(kcalls')
                             - (IF kpc' = "restore.writeDb" THEN 1 ELSE 0)
         /\ kpc = "restore.writeDb" => kpc' # "rejected"]_vars

\* execute resolved after two writes, the first of which failed.
C36_Witness ==
    /\ conduit = "RestoreResources"
    /\ kpc = "resolved"
    /\ Len(kdbs) = 2
    /\ kcount = 1
    /\ kcalls[4].op = "console.error"
    /\ kcalls[5].op = "writeDb"

(***************************************************************************)
(* C37: the conduits that need dbList, called without one.                 *)
(***************************************************************************)
\* C37: SyncDatabasesConduit.execute and DownloadNewResourcesConduit.execute
\* called with dbList null or undefined are rejected at once: no DLP
\* command, OpenConduit included, was sent and no storage call was made,
\* and storage is as it was.
C37_NoDbListRejectedFirst ==
    [][/\ conduit \in {"SyncDatabases", "DownloadNewResources"}
       /\ conduitData.dbListIsNull
       => /\ kpc' = "rejected"
          /\ kcalls' = <<>>
          /\ desktop' = desktop]_vars

C37_Witness ==
    /\ conduit = "DownloadNewResources"
    /\ conduitData.dbListIsNull
    /\ kpc = "rejected"
    /\ kcalls = <<>>

(***************************************************************************)
(* C38, C39: NodeDatabaseStorageImplementation.                            *)
(***************************************************************************)
\* C38, as claimed: in either configuration, once writeDatabaseToStorage
\* (user, db) has completed, databaseExistsInStorage(user, '<name>.<ext>')
\* returns true and readDatabaseFromStorage(user, '<name>.<ext>') returns
\* the database written.
C38_WrittenDatabaseIsFound ==
    [][stgLast'.op = "writeDatabaseToStorage" =>
         LET dbName == [name |-> stgLast'.db.name,
                        ext |-> IF stgLast'.db.resDB THEN "prc" ELSE "pdb"]
             read == readDatabaseFromStorage(stgFiles', readWriteToBasedir,
                                             dbName)
         IN  /\ databaseExistsInStorage(stgFiles', dbName)
             /\ ~read.throws
             /\ read.db = stgLast'.db]_vars

\* A file is at dir/file and holds db.
Holds(files, dir, file, db) ==
    [dir |-> dir, file |-> file, db |-> db] \in files

InDir(files, dir, file) == \E f \in files : f.dir = dir /\ f.file = file

\* C39: without readWriteToBasedir, readDatabaseFromStorage returns the
\* file of the backup directory when there is one, the file of the install
\* directory when there is none in backup, and fails when there is neither;
\* after removeDatabaseFromInstallList(user, db, filename) the install
\* directory has no such file, so that getDatabasesFromInstallList does not
\* list it, and the backup directory holds the moved file under the name of
\* db, whatever it held before; getDatabasesFromInstallList returns the
\* .prc and .pdb files of the install directory, and no other, in ascending
\* order of file name.
C39_LookupOrderAndInstallList ==
    [][/\ (stgLast'.op = "readDatabaseFromStorage" /\ ~readWriteToBasedir) =>
            LET n == stgLast'.dbName
                r == stgLast'.result
            IN  /\ InDir(stgFiles', "backup", n) =>
                       ~r.throws /\ Holds(stgFiles', "backup", n, r.db)
                /\ (~InDir(stgFiles', "backup", n)
                      /\ InDir(stgFiles', "install", n)) =>
                       ~r.throws /\ Holds(stgFiles', "install", n, r.db)
                /\ (~InDir(stgFiles', "backup", n)
                      /\ ~InDir(stgFiles', "install", n)) => r.throws
       /\ (stgLast'.op = "removeDatabaseFromInstallList"
             /\ ~stgLast'.throws) =>
            LET n == stgLast'.filename
                list == getDatabasesFromInstallList(stgFiles',
                                                    readWriteToBasedir)
            IN  /\ ~InDir(stgFiles', "install", n)
                /\ ~list.throws =>
                       \A k \in 1..Len(list.filenames) : list.filenames[k] # n
                /\ \E db \in StgDbs :
                     /\ Holds(stgFiles, "install", n, db)
                     /\ Holds(stgFiles', "backup",
                              [name |-> stgLast'.db.name,
                               ext |-> IF stgLast'.db.resDB THEN "prc"
                                       ELSE "pdb"], db)
       /\ (stgLast'.op = "getDatabasesFromInstallList"
             /\ ~stgLast'.result.throws) =>
            LET names == stgLast'.result.filenames
            IN  /\ \A k \in 1..Len(names) :
                     /\ names[k].ext \in {"prc", "pdb"}
                     /\ InDir(stgFiles', "install", names[k])
                /\ \A f \in FileNames :
                     (InDir(stgFiles', "install", f)
                        /\ f.ext \in {"prc", "pdb"}) =>
                       \E k \in 1..Len(names) : names[k] = f
                /\ \A j, k \in 1..Len(names) :
                     j < k =>
                       \/ names[j].name < names[k].name
                       \/ /\ names[j].name = names[k].name
                          /\ names[j].ext = "pdb"
                          /\ names[k].ext = "prc"]_vars

\* Without readWriteToBasedir a database that is both in backup and in
\* install was read, and the copy of backup returned.
C39_Witness ==
    /\ ~readWriteToBasedir
    /\ stgLast.op = "readDatabaseFromStorage"
    /\ InDir(stgFiles, "install", stgLast.dbName)
    /\ InDir(stgFiles, "backup", stgLast.dbName)
    /\ ~stgLast.result.throws
    /\ stgLast.result.db.origin = "device"

(***************************************************************************)
(* C40: Database.serialize and Database.parseFrom.                         *)
(***************************************************************************)
\* The blocks of buffer from offset on are the buffers of blobs, one after
\* the other, each at its offset of ids, up to the end of buffer.
RECURSIVE LaidOut(_, _, _, _)
LaidOut(buffer, offset, blobs, ids) ==
    IF blobs = <<>> THEN offset = Len(buffer)
    ELSE /\ Head(ids) = offset
         /\ offset + Len(Head(blobs)) <= Len(buffer)
         /\ SubSeq(buffer, offset + 1, offset + Len(Head(blobs)))
              = Head(blobs)
         /\ LaidOut(buffer, offset + Len(Head(blobs)), Tail(blobs),
                    Tail(ids))

\* C40: serialize() sets appInfoId to 0 exactly when appInfo is null and
\* sortInfoId to 0 exactly when sortInfo is null; the buffer is the header,
\* the record list, appInfo, sortInfo and the records in that order with
\* nothing between them, appInfoId, sortInfoId and every localChunkId being
\* the offset where the block before ends, so that they never decrease;
\* serializing again gives the same buffer; parseFrom of the buffer gives
\* the same appInfo, sortInfo and records, in the same order.
C40_SerializeLayoutAndRoundTrip ==
    [][/\ Len(pdbBuffers') > Len(pdbBuffers) =>
            LET buffer == pdbBuffers'[Len(pdbBuffers')]
                n == Len(pdb.records)
                listEnd == 2 + 1 + n
                appInfoLen == IF pdb.appInfo = <<>> THEN 0
                              ELSE Len(pdb.appInfo[1])
                sortInfoLen == IF pdb.sortInfo = <<>> THEN 0
                               ELSE Len(pdb.sortInfo[1])
            IN  /\ pdb'.appInfo = pdb.appInfo
                /\ pdb'.sortInfo = pdb.sortInfo
                /\ pdb'.records = pdb.records
                /\ pdb'.appInfoId = 0 <=> pdb.appInfo = <<>>
                /\ pdb'.sortInfoId = 0 <=> pdb.sortInfo = <<>>
                /\ SubSeq(buffer, 1, 3) = <<pdb'.appInfoId, pdb'.sortInfoId, n>>
                /\ SubSeq(buffer, 4, listEnd) = pdb'.localChunkIds
                /\ LaidOut(buffer, listEnd,
                           (IF pdb.appInfo = <<>> THEN <<>> ELSE pdb.appInfo)
                             \o (IF pdb.sortInfo = <<>> THEN <<>>
                                 ELSE pdb.sortInfo)
                             \o pdb.records,
                           (IF pdb.appInfo = <<>> THEN <<>>
                            ELSE <<pdb'.appInfoId>>)
                             \o (IF pdb.sortInfo = <<>> THEN <<>>
                                 ELSE <<pdb'.sortInfoId>>)
                             \o pdb'.localChunkIds)
                /\ Len(pdbBuffers) > 0 => buffer = pdbBuffers[Len(pdbBuffers)]
       /\ Len(pdbParsed') > Len(pdbParsed) =>
            /\ pdbParsed'[1].appInfo = pdb.appInfo
            /\ pdbParsed'[1].sortInfo = pdb.sortInfo
            /\ pdbParsed'[1].records = pdb.records]_vars

\* A database with appInfo, sortInfo and two records, one of them empty,
\* was serialized twice and parsed.
C40_Witness ==
    /\ Len(pdbBuffers) = 2
    /\ Len(pdbParsed) = 1
    /\ pdb.appInfo # <<>>
    /\ pdb.sortInfo = <<<<1>>>>
    /\ pdb.records = << <<>>, <<1>> >>

=============================================================================
